---- MODULE Spec2Model ----
(***************************************************************************)
(* A model of mypy-upgrade's suppression engine: the comment editing       *)
(* functions (editing.py), the error-detail extraction and comment         *)
(* synthesis (silence.py, parsing.py), the silenceability filter           *)
(* (filter.py), the per-file / per-report rewrite (silence.py), the        *)
(* corrected line numbers (utils.py) and the loop of mypy_upgrade          *)
(* (cli.py).                                                               *)
(*                                                                         *)
(* Python strings are TLA+ strings; TLC evaluates Len, \o, SubSeq, Head    *)
(* and Tail on them.  A Python call that can raise returns a record        *)
(* [exc, val]: exc = "" on a normal return.                                *)
(***************************************************************************)
EXTENDS Integers, Sequences, FiniteSets, TLC

(***************************************************************************)
(* Python str primitives                                                   *)
(***************************************************************************)

\* s[i] (1-indexed); "" past the end
Char(s, i) == IF 1 <= i /\ i <= Len(s) THEN SubSeq(s, i, i) ELSE ""

\* s.startswith(p, i)
StartsWithAt(s, i, p) ==
    /\ i + Len(p) - 1 <= Len(s)
    /\ SubSeq(s, i, i + Len(p) - 1) = p

startswith(s, p) == StartsWithAt(s, 1, p)

endswith(s, p) ==
    /\ Len(p) <= Len(s)
    /\ SubSeq(s, Len(s) - Len(p) + 1, Len(s)) = p

\* the characters the regular expression class \s matches (of the model's alphabet)
WhiteSpace == {" "}

\* the characters of the class [a-z, \-] of the "type: ignore" expressions
CodeChars ==
    {"a", "b", "c", "d", "e", "f", "g", "h", "i", "j", "k", "l", "m",
     "n", "o", "p", "q", "r", "s", "t", "u", "v", "w", "x", "y", "z",
     ",", " ", "-"}

\* the first index >= i whose character is not in chars (Len(s) + 1 if none)
RECURSIVE SkipWhile(_, _, _)
SkipWhile(s, i, chars) ==
    IF i <= Len(s) /\ Char(s, i) \in chars
    THEN SkipWhile(s, i + 1, chars)
    ELSE i

\* the last index <= i whose character is not in chars (0 if none)
RECURSIVE SkipBack(_, _, _)
SkipBack(s, i, chars) ==
    IF i >= 1 /\ Char(s, i) \in chars
    THEN SkipBack(s, i - 1, chars)
    ELSE i

\* s.lstrip(chars), s.rstrip(chars), s.strip()
lstrip(s, chars) == SubSeq(s, SkipWhile(s, 1, chars), Len(s))
rstrip(s, chars) == SubSeq(s, 1, SkipBack(s, Len(s), chars))
strip(s) == lstrip(rstrip(s, WhiteSpace), WhiteSpace)

\* s.replace(old, new): every non-overlapping occurrence, left to right
RECURSIVE ReplaceFrom(_, _, _, _)
ReplaceFrom(s, i, old, new) ==
    IF i > Len(s) THEN (IF old = "" THEN new ELSE "")
    ELSE IF old = "" THEN new \o Char(s, i) \o ReplaceFrom(s, i + 1, old, new)
    ELSE IF StartsWithAt(s, i, old)
         THEN new \o ReplaceFrom(s, i + Len(old), old, new)
         ELSE Char(s, i) \o ReplaceFrom(s, i + 1, old, new)

replace(s, old, new) == ReplaceFrom(s, 1, old, new)

\* sub in s
contains(s, sub) == \E i \in 1..(Len(s) + 1) : StartsWithAt(s, i, sub)

\* s.split(sep) for a one-character separator
RECURSIVE SplitFrom(_, _, _, _)
SplitFrom(s, i, from, sep) ==
    IF i > Len(s) THEN <<SubSeq(s, from, Len(s))>>
    ELSE IF Char(s, i) = sep
         THEN <<SubSeq(s, from, i - 1)>> \o SplitFrom(s, i + 1, i + 1, sep)
         ELSE SplitFrom(s, i + 1, from, sep)

split(s, sep) == SplitFrom(s, 1, 1, sep)

\* sep.join(parts)
RECURSIVE join(_, _)
join(parts, sep) ==
    IF parts = <<>> THEN ""
    ELSE IF Len(parts) = 1 THEN parts[1]
    ELSE parts[1] \o sep \o join(Tail(parts), sep)

\* the code points of the model's alphabet in ascending order
CharOrder == " \"#'()*,-./0123456789:=[]_abcdefghijklmnopqrstuvwxyz"

Ord(c) == CHOOSE i \in 1..Len(CharOrder) : Char(CharOrder, i) = c

\* a < b for Python strings (lexicographic by code point)
RECURSIVE StrLess(_, _)
StrLess(a, b) ==
    IF b = "" THEN FALSE
    ELSE IF a = "" THEN TRUE
    ELSE IF Head(a) = Head(b) THEN StrLess(Tail(a), Tail(b))
    ELSE Ord(Head(a)) < Ord(Head(b))

\* sorted(xs) for a list of strings (stable)
RECURSIVE sorted(_)
sorted(xs) ==
    IF xs = <<>> THEN <<>>
    ELSE LET rest == sorted(SubSeq(xs, 1, Len(xs) - 1))
             last == xs[Len(xs)]
             \* stable: an equal element stays behind the earlier ones
             pos == Cardinality({i \in 1..Len(rest) : ~StrLess(last, rest[i])})
         IN SubSeq(rest, 1, pos) \o <<last>> \o SubSeq(rest, pos + 1, Len(rest))

\* max(xs) for a non-empty list of strings
RECURSIVE max(_)
max(xs) ==
    IF Len(xs) = 1 THEN xs[1]
    ELSE LET m == max(Tail(xs))
         IN IF StrLess(xs[1], m) THEN m ELSE xs[1]

Range(xs) == {xs[i] : i \in 1..Len(xs)}

\* every list that holds each element of the set S once: tuple(S) of a Python set
\* of strings iterates in an order the hash seed decides
RECURSIVE Orders(_)
Orders(S) ==
    IF S = {} THEN {<<>>}
    ELSE UNION {{<<x>> \o rest : rest \in Orders(S \ {x})} : x \in S}

(***************************************************************************)
(* The regular expressions of editing.py and parsing.py                    *)
(***************************************************************************)

NoMatch == [ok |-> FALSE, start |-> 0, end |-> 0, codes |-> ""]

\* type\s*:\s*ignore matched at index i: the index after it, 0 when it does not match
TypeIgnorePhraseEnd(s, i) ==
    IF ~StartsWithAt(s, i, "type") THEN 0
    ELSE LET a == SkipWhile(s, i + 4, WhiteSpace)
         IN IF Char(s, a) # ":" THEN 0
            ELSE LET b == SkipWhile(s, a + 1, WhiteSpace)
                 IN IF StartsWithAt(s, b, "ignore") THEN b + 6 ELSE 0

\* re.match at index i of
\*     type\s*:\s*ignore(\[(?P<error_code>[a-z, \-]+)\])?         (ws = FALSE)
\*     type\s*:\s*ignore\s*(?:\[(?P<error_code>[a-z, \-]+)\])?    (ws = TRUE)
\* end is the index after the match; codes is the group ("" when the group
\* took no part: every caller treats None and "" alike)
TypeIgnoreMatchAt(s, i, ws) ==
    LET Match(d, e) ==
            LET grp == Char(s, d) = "[" /\ e > d + 1 /\ Char(s, e) = "]"
            IN [ok |-> TRUE, start |-> i,
                end |-> IF grp THEN e + 1 ELSE d,
                codes |-> IF grp THEN SubSeq(s, d + 1, e - 1) ELSE ""]
        Group(d) == Match(d, SkipWhile(s, d + 1, CodeChars))
        Phrase(c) == IF c = 0 THEN NoMatch
                     ELSE Group(IF ws THEN SkipWhile(s, c, WhiteSpace) ELSE c)
    IN Phrase(TypeIgnorePhraseEnd(s, i))

\* pattern.search(s) from index i: the leftmost match
RECURSIVE TypeIgnoreSearchFrom(_, _, _)
TypeIgnoreSearchFrom(s, i, ws) ==
    LET Found(m) == IF m.ok THEN m ELSE TypeIgnoreSearchFrom(s, i + 1, ws)
    IN IF i > Len(s) THEN NoMatch ELSE Found(TypeIgnoreMatchAt(s, i, ws))

type_ignore_search(s) == TypeIgnoreSearchFrom(s, 1, FALSE)

\* pattern.sub(repl, s): every non-overlapping match replaced, left to right
RECURSIVE TypeIgnoreSubFrom(_, _, _)
TypeIgnoreSubFrom(s, i, repl) ==
    LET Sub(m) ==
            IF ~m.ok THEN SubSeq(s, i, Len(s))
            ELSE SubSeq(s, i, m.start - 1) \o repl
                     \o TypeIgnoreSubFrom(s, m.end, repl)
    IN Sub(TypeIgnoreSearchFrom(s, i, FALSE))

type_ignore_sub(repl, s) == TypeIgnoreSubFrom(s, 1, repl)

\* pattern.findall(s) of the parsing.py expression: the group of every match
RECURSIVE TypeIgnoreFindAllFrom(_, _)
TypeIgnoreFindAllFrom(s, i) ==
    LET All(m) == IF ~m.ok THEN <<>>
                  ELSE <<m.codes>> \o TypeIgnoreFindAllFrom(s, m.end)
    IN All(TypeIgnoreSearchFrom(s, i, TRUE))

\* re.sub(r"type\s*:\s*ignore\s*(\[\])?", "", s)
RECURSIVE EmptyIgnoreSubFrom(_, _)
EmptyIgnoreSubFrom(s, i) ==
    LET Brackets(d) ==
            EmptyIgnoreSubFrom(s, IF StartsWithAt(s, d, "[]") THEN d + 2 ELSE d)
        Phrase(c) == IF c = 0 THEN Char(s, i) \o EmptyIgnoreSubFrom(s, i + 1)
                     ELSE Brackets(SkipWhile(s, c, WhiteSpace))
    IN IF i > Len(s) THEN "" ELSE Phrase(TypeIgnorePhraseEnd(s, i))

\* re.search(r"[^#\s]", s)
HasOtherThanHashAndBlank(s) ==
    \E i \in 1..Len(s) : Char(s, i) \notin (WhiteSpace \cup {"#"})

(***************************************************************************)
(* parsing.py                                                              *)
(***************************************************************************)

\* MypyError(filename, line_no, col_offset, message, error_code); col_offset = -1
\* stands for None
MypyError(filename, line_no, col_offset, message, error_code) ==
    [filename |-> filename, line_no |-> line_no, col_offset |-> col_offset,
     message |-> message, error_code |-> error_code]

\* string_to_error_codes without the order of the returned tuple: the set its
\* set comprehension builds
string_to_error_codes(string) ==
    LET Codes(error_codes) ==
            IF error_codes # ""
            THEN {strip(code) : code \in Range(split(error_codes, ","))}
            ELSE {}
        Matches(code_match) ==
            IF code_match # <<>> THEN Codes(max(code_match)) ELSE {}
    IN Matches(TypeIgnoreFindAllFrom(string, 1))

(***************************************************************************)
(* editing.py                                                              *)
(***************************************************************************)

Return(v) == [exc |-> "", val |-> v]
Raise(e) == [exc |-> e, val |-> ""]

\* the codes of old_error_codes that error_codes lacks, appended in any order
\* (old_error_codes is a set; the result is sorted by the caller)
ExtendMissing(error_codes, old) ==
    error_codes \o (CHOOSE o \in Orders(old \ Range(error_codes)) : TRUE)

add_type_ignore_comment(comment, error_codes) ==
    LET Rest(match, removed) ==
            IF match.ok
            THEN (IF ~HasOtherThanHashAndBlank(removed) THEN ""
                  ELSE " # " \o lstrip(removed, {"#", " "}))
            ELSE IF comment # ""
                 THEN " # " \o lstrip(comment, {"#", " "})
                 ELSE ""
        Added(match) ==
            LET old_error_codes ==
                    IF match.ok /\ match.codes # ""
                    THEN Range(split(replace(match.codes, " ", ""), ","))
                    ELSE {}
            IN "# type: ignore["
                   \o join(sorted(ExtendMissing(error_codes, old_error_codes)), ", ")
                   \o "]" \o Rest(match, type_ignore_sub("", comment))
    IN Added(type_ignore_search(comment))

RECURSIVE format_type_ignore_comment(_)
format_type_ignore_comment(comment) ==
    LET Deleted(deleted) ==
            IF ~HasOtherThanHashAndBlank(deleted) THEN "" ELSE deleted
        Formatted(pruned_error_codes, formatted_comment) ==
            IF pruned_error_codes # <<>> THEN formatted_comment
            ELSE format_type_ignore_comment(formatted_comment)
        Pruned(error_codes, pruned_error_codes) ==
            Formatted(pruned_error_codes,
                      replace(comment, error_codes,
                              join(pruned_error_codes, ", ")))
        Stripped(codes) ==
            SelectSeq([i \in 1..Len(codes) |-> strip(codes[i])],
                      LAMBDA code : code # "")
        Match(match) ==
            IF match.ok /\ match.codes # ""
            THEN Pruned(match.codes, Stripped(split(match.codes, ",")))
            ELSE Deleted(EmptyIgnoreSubFrom(comment, 1))
    IN Match(type_ignore_search(comment))

\* new_codes after new_codes.replace(code, "") for each code of the list in turn
RECURSIVE RemoveCodes(_, _)
RemoveCodes(new_codes, codes_to_remove) ==
    IF codes_to_remove = <<>> THEN new_codes
    ELSE RemoveCodes(replace(new_codes, codes_to_remove[1], ""),
                     Tail(codes_to_remove))

\* raises AttributeError (match is None) when no wildcard is given and the
\* comment holds no "type: ignore"
remove_unused_type_ignore_comments(comment, codes_to_remove) ==
    LET Removed(match) ==
            IF ~match.ok THEN Raise("AttributeError")
            ELSE Return(type_ignore_sub(
                     "type: ignore[" \o RemoveCodes(match.codes, codes_to_remove)
                         \o "]",
                     comment))
    IN IF "*" \in Range(codes_to_remove)
       THEN Return(type_ignore_sub("", comment))
       ELSE Removed(type_ignore_search(comment))

(***************************************************************************)
(* silence.py: comment synthesis                                           *)
(***************************************************************************)

NoDetails == [add |-> <<>>, descriptions |-> <<>>, remove |-> <<>>]

\* one pass of the loop of _extract_error_details without the branch for the
\* codes an ignore-without-code diagnostic suggests
StepWithoutSuggestions(d, error) ==
    LET Step(codes) ==
            IF \/ error.error_code = "unused-ignore"
               \/ (error.error_code = "ignore-without-code" /\ "*" \in Range(codes))
            THEN [d EXCEPT !.remove = @ \o codes]
            ELSE [d EXCEPT !.add = Append(@, error.error_code),
                           !.descriptions = Append(@, error.message)]
        Found(found) ==
            {Step(codes) : codes \in IF found # {} THEN Orders(found)
                                                   ELSE {<<"*">>}}
    IN Found(string_to_error_codes(error.message))

\* one pass of the loop of _extract_error_details, for every order in which the
\* tuple of codes found in the message may iterate
ErrorDetailsStep(d, error) ==
    LET Step(codes) ==
            IF \/ error.error_code = "unused-ignore"
               \/ (error.error_code = "ignore-without-code" /\ "*" \in Range(codes))
            THEN [d EXCEPT !.remove = @ \o codes]
            ELSE IF error.error_code = "ignore-without-code"
            THEN [d EXCEPT !.add = @ \o codes,
                           !.descriptions =
                               @ \o [i \in 1..Len(codes) |-> "No message"]]
            ELSE [d EXCEPT !.add = Append(@, error.error_code),
                           !.descriptions = Append(@, error.message)]
        Found(found) ==
            {Step(codes) : codes \in IF found # {} THEN Orders(found)
                                                   ELSE {<<"*">>}}
    IN Found(string_to_error_codes(error.message))

\* (codes_to_add, descriptions_to_add, codes_to_remove): the set of the triples
\* the function may return (one per iteration order of the code tuples)
RECURSIVE _extract_error_details(_)
_extract_error_details(errors) ==
    IF errors = <<>> THEN {NoDetails}
    ELSE UNION {ErrorDetailsStep(d, errors[Len(errors)]) :
                   d \in _extract_error_details(SubSeq(errors, 1, Len(errors) - 1))}

\* the body of create_suppression_comment that appends the descriptions
\* whatever description_style is
DescribedWhateverTheStyle(comment, d, description_style, fix_me) ==
    LET Described(suppression_comment) ==
            IF d.descriptions # <<>>
            THEN suppression_comment \o " # " \o join(d.descriptions, ", ")
            ELSE suppression_comment
        FixMe(suppression_comment) ==
            Described(IF fix_me # "" THEN suppression_comment \o " # " \o fix_me
                      ELSE suppression_comment)
        Formatted(formatted_comment) ==
            IF d.add # <<>>
            THEN Return(FixMe(add_type_ignore_comment(formatted_comment, d.add)))
            ELSE Return(formatted_comment)
        Pruned(pruned_comment) ==
            IF pruned_comment.exc # "" THEN pruned_comment
            ELSE Formatted(format_type_ignore_comment(pruned_comment.val))
    IN Pruned(remove_unused_type_ignore_comments(comment, d.remove))

\* the body of create_suppression_comment after _extract_error_details returned d
SuppressionCommentFrom(comment, d, description_style, fix_me) ==
    LET Described(suppression_comment) ==
            IF description_style = "full" /\ d.descriptions # <<>>
            THEN suppression_comment \o " # " \o join(d.descriptions, ", ")
            ELSE suppression_comment
        FixMe(suppression_comment) ==
            Described(IF fix_me # "" THEN suppression_comment \o " # " \o fix_me
                      ELSE suppression_comment)
        Formatted(formatted_comment) ==
            IF d.add # <<>>
            THEN Return(FixMe(add_type_ignore_comment(formatted_comment, d.add)))
            ELSE Return(formatted_comment)
        Pruned(pruned_comment) ==
            IF pruned_comment.exc # "" THEN pruned_comment
            ELSE Formatted(format_type_ignore_comment(pruned_comment.val))
    IN Pruned(remove_unused_type_ignore_comments(comment, d.remove))

\* the set of the outcomes of create_suppression_comment: a returned comment or
\* the exception that escapes it
create_suppression_comment(comment, errors, description_style, fix_me) ==
    {SuppressionCommentFrom(comment, d, description_style, fix_me) :
        d \in _extract_error_details(errors)}

(***************************************************************************)
(* The token stream of a source file.  A file's content is the list of its *)
(* physical lines (without terminators).  The source alphabet of the model *)
(* has names, operators, brackets, triple-quoted strings, comments and the *)
(* explicit continuation (a backslash ending the line); its lines are not  *)
(* indented and its strings carry no prefix letter.                        *)
(***************************************************************************)

TokenInfo(type, start, end, line) ==
    [type |-> type, start |-> start, end |-> end, line |-> line]

NoString == <<0, 0>>

\* The tokens of physical line l from (1-indexed) column i on.  st.string is the
\* start of the triple-quoted string that is open (NoString if none), st.depth the
\* bracket depth, st.continued whether the line ends in a continuation.
RECURSIVE ScanLine(_, _, _, _)
ScanLine(text, l, i, st) ==
    IF i > Len(text) THEN st
    ELSE IF st.string # NoString
    THEN (IF StartsWithAt(text, i, "'''")
          THEN ScanLine(text, l, i + 3,
                   [st EXCEPT !.tokens = Append(@, TokenInfo("STRING", st.string,
                                                             <<l, i + 2>>, text)),
                              !.string = NoString])
          ELSE ScanLine(text, l, i + 1, st))
    ELSE LET c == Char(text, i)
         IN IF c \in WhiteSpace THEN ScanLine(text, l, i + 1, st)
            ELSE IF c = "#"
            THEN [st EXCEPT !.tokens = Append(@, TokenInfo("COMMENT", <<l, i - 1>>,
                                                           <<l, Len(text)>>, text))]
            ELSE IF StartsWithAt(text, i, "'''")
            THEN ScanLine(text, l, i + 3, [st EXCEPT !.string = <<l, i - 1>>])
            ELSE IF c = "\\" /\ i = Len(text)
            THEN [st EXCEPT !.continued = TRUE]
            ELSE ScanLine(text, l, i + 1,
                     [st EXCEPT !.tokens = Append(@, TokenInfo("OP", <<l, i - 1>>,
                                                               <<l, i>>, text)),
                                !.depth = IF c \in {"(", "["} THEN @ + 1
                                          ELSE IF c \in {")", "]"} THEN @ - 1
                                          ELSE @])

\* the scan of the lines l.. of the file
RECURSIVE ScanFile(_, _, _)
ScanFile(lines, l, st) ==
    LET newline == TokenInfo("NEWLINE", <<l, Len(lines[l])>>,
                             <<l, Len(lines[l]) + 1>>, lines[l])
        Scanned(after) ==
            ScanFile(lines, l + 1,
                     IF after.string = NoString /\ ~after.continued
                     THEN [after EXCEPT !.tokens = Append(@, newline)]
                     ELSE after)
    IN IF l > Len(lines) THEN st
       ELSE Scanned(ScanLine(lines[l], l, 1, [st EXCEPT !.continued = FALSE]))

\* list(tokenize.generate_tokens(io.StringIO(raw_code).readline)): the tokens,
\* or TokenError at the end of a file that ends inside a string, with
\* unbalanced brackets or after a continuation
generate_tokens(lines) ==
    LET endmarker == TokenInfo("ENDMARKER", <<Len(lines) + 1, 0>>,
                               <<Len(lines) + 1, 0>>, "")
        Scanned(st) ==
            IF st.string # NoString \/ st.depth # 0 \/ st.continued
            THEN Raise("TokenError")
            ELSE Return(Append(st.tokens, endmarker))
    IN Scanned(ScanFile(lines, 1, [tokens |-> <<>>, string |-> NoString,
                                   depth |-> 0, continued |-> FALSE]))

(***************************************************************************)
(* utils.py: the decomposition of the lines into code and comment          *)
(***************************************************************************)

CommentSplitLine(code, comment) == [code |-> code, comment |-> comment]

\* one CommentSplitLine per physical line, split where the line's COMMENT
\* token starts
split_into_code_and_comment(source, tokens) ==
    [l \in 1..Len(source) |->
        LET starts == {tokens[k].start[2] : k \in
                          {k \in 1..Len(tokens) : /\ tokens[k].type = "COMMENT"
                                                  /\ tokens[k].start[1] = l}}
        IN IF starts = {} THEN CommentSplitLine(source[l], "")
           ELSE LET c == CHOOSE c \in starts : TRUE
                IN CommentSplitLine(SubSeq(source[l], 1, c),
                                    SubSeq(source[l], c + 1, Len(source[l])))]

(***************************************************************************)
(* filter.py: silenceability                                               *)
(***************************************************************************)

UnsilenceableRegion(start, end) == [start |-> start, end |-> end]

_find_unsilenceable_regions(tokens, comments) ==
    {IF tokens[k].start[1] # tokens[k].end[1] /\ tokens[k].type = "STRING"
     THEN UnsilenceableRegion(tokens[k].start[1], tokens[k].end[1])
     ELSE UnsilenceableRegion(tokens[k].end[1], tokens[k].end[1])
     : k \in {k \in 1..Len(tokens) :
                \/ /\ tokens[k].start[1] # tokens[k].end[1]
                   /\ tokens[k].type = "STRING"
                \/ /\ endswith(rstrip(tokens[k].line, {"\r", "\n"}), "\\")
                   /\ comments[tokens[k].end[1]] = ""}}

\* _is_safe_to_silence without its rule for the code "syntax"
SafeWhateverTheCode(error, unsilenceable_regions) ==
    \A region \in unsilenceable_regions :
       ~(/\ region.start <= error.line_no
         /\ error.line_no <= region.end
         /\ ~(error.line_no = region.end /\ region.start # region.end))

\* _is_safe_to_silence without its exception for the closing line of a
\* multi-line string
SafeOutsideEveryRegion(error, unsilenceable_regions) ==
    /\ error.error_code # "syntax"
    /\ \A region \in unsilenceable_regions :
          ~(region.start <= error.line_no /\ error.line_no <= region.end)

_is_safe_to_silence(error, unsilenceable_regions) ==
    /\ error.error_code # "syntax"
    /\ \A region \in unsilenceable_regions :
          ~(/\ region.start <= error.line_no
            /\ error.line_no <= region.end
            /\ ~(error.line_no = region.end /\ region.start # region.end))

filter_by_silenceability(errors, comments, tokens) ==
    LET unsilenceable_regions == _find_unsilenceable_regions(tokens, comments)
    IN SelectSeq(errors, LAMBDA error :
                     _is_safe_to_silence(error, unsilenceable_regions))

(***************************************************************************)
(* silence.py: the rewrite of one file                                     *)
(***************************************************************************)

\* the text _writelines writes for one line
WrittenLine(line) ==
    IF line.code # "" /\ line.comment # ""
    THEN (IF endswith(line.code, " ") /\ ~startswith(line.comment, "# type: ignore")
          THEN line.code \o line.comment
          ELSE rstrip(line.code, WhiteSpace) \o "  " \o line.comment)
    ELSE IF line.code # "" THEN line.code
    ELSE line.comment

\* "\n".join(to_write), as the list of the written lines
_writelines(lines) == [i \in 1..Len(lines) |-> WrittenLine(lines[i])]

\* a grouping that puts every element in a group of its own
EachAlone(xs, attr) == [i \in 1..Len(xs) |-> <<xs[i]>>]

\* itertools.groupby(xs, key=attrgetter(attr)): the maximal runs of adjacent
\* elements of equal key
RECURSIVE groupby(_, _)
groupby(xs, attr) ==
    IF xs = <<>> THEN <<>>
    ELSE LET rest == groupby(Tail(xs), attr)
         IN IF rest # <<>> /\ rest[1][1][attr] = xs[1][attr]
            THEN <<<<xs[1]>> \o rest[1]>> \o Tail(rest)
            ELSE <<<<xs[1]>>>> \o rest

\* the loop of silence_errors_in_file over the line groups: the set of its
\* outcomes [exc, lines] (lines[i] with i = line_number - 1 raises IndexError
\* past the end of the list; index -1 is the last line)
RECURSIVE SilenceGroups(_, _, _, _)
SilenceGroups(lines, groups, description_style, fix_me) ==
    IF groups = <<>> THEN {[exc |-> "", lines |-> lines]}
    ELSE LET line_number == groups[1][1].line_no
             i == IF line_number = 0 THEN Len(lines) ELSE line_number
         IN IF i < 1 \/ i > Len(lines)
            THEN {[exc |-> "IndexError", lines |-> lines]}
            ELSE UNION {
                IF new_comment.exc # ""
                THEN {[exc |-> new_comment.exc, lines |-> lines]}
                ELSE SilenceGroups(
                         [lines EXCEPT ![i] = CommentSplitLine(lines[i].code,
                                                               new_comment.val)],
                         Tail(groups), description_style, fix_me)
                : new_comment \in create_suppression_comment(
                      lines[i].comment, groups[1], description_style, fix_me)}

\* [line.comment for line in lines]
CommentsOf(lines) == [i \in 1..Len(lines) |-> lines[i].comment]

\* The outcomes of silence_errors_in_file on a file whose content is raw_code:
\* [exc, content, returned]: the exception that escapes ("" if none), the
\* file's content afterwards and the returned list.
silence_errors_in_file(raw_code, errors, description_style, fix_me, dry_run) ==
    LET Silenced(lines, safe_to_silence) ==
            {IF done.exc # ""
             THEN [exc |-> done.exc, content |-> raw_code, returned |-> <<>>]
             ELSE [exc |-> "",
                   content |-> IF dry_run THEN raw_code
                               ELSE _writelines(done.lines),
                   returned |-> safe_to_silence]
             : done \in SilenceGroups(lines, groupby(safe_to_silence, "line_no"),
                                      description_style, fix_me)}
        Split(tokens, lines) ==
            Silenced(lines,
                     filter_by_silenceability(errors, CommentsOf(lines), tokens))
        Tokenized(tokens) ==
            IF tokens.exc # ""
            THEN {[exc |-> tokens.exc, content |-> raw_code, returned |-> <<>>]}
            ELSE Split(tokens.val,
                       split_into_code_and_comment(raw_code, tokens.val))
    IN Tokenized(generate_tokens(raw_code))

(***************************************************************************)
(* silence.py: the result of a run                                         *)
(***************************************************************************)

MypyUpgradeResult(silenced_, failures_, ignored_) ==
    [silenced |-> silenced_, failures |-> failures_, ignored |-> ignored_]

NoResult == MypyUpgradeResult(<<>>, <<>>, <<>>)

\* a selection that keeps every element of xs
Everything(xs, ys) == xs

\* tuple(e for e in xs if e not in ys)
NotIn(xs, ys) == SelectSeq(xs, LAMBDA e : e \notin Range(ys))

(***************************************************************************)
(* parsing.py: the report.  A report is the list of its lines.             *)
(***************************************************************************)

Digits == {"0", "1", "2", "3", "4", "5", "6", "7", "8", "9"}

\* int(s) for a string of decimal digits
RECURSIVE int(_)
int(s) ==
    IF s = "" THEN 0
    ELSE 10 * int(SubSeq(s, 1, Len(s) - 1)) + (Ord(Char(s, Len(s))) - Ord("0"))

\* col_offset = None
NoColumn == -1

\* the first index >= i whose character is in chars (Len(s) + 1 if none)
RECURSIVE IndexFrom(_, _, _)
IndexFrom(s, i, chars) ==
    IF i > Len(s) \/ Char(s, i) \in chars THEN i
    ELSE IndexFrom(s, i + 1, chars)

\* the last index <= i whose character is in chars (0 if none)
RECURSIVE LastIndexFrom(_, _, _)
LastIndexFrom(s, i, chars) ==
    IF i < 1 \/ Char(s, i) \in chars THEN i
    ELSE LastIndexFrom(s, i - 1, chars)

\* the groups :\d+ that follow one another from index i, at most n of them: the
\* index after each
RECURSIVE NumberEnds(_, _, _)
NumberEnds(s, i, n) ==
    LET Group(e) == IF n > 0 /\ Char(s, i) = ":" /\ e > i + 1
                    THEN <<e>> \o NumberEnds(s, e, n - 1)
                    ELSE <<>>
    IN Group(SkipWhile(s, i + 1, Digits))

NoInfo == [ok |-> FALSE, filename |-> "", line_no |-> "", col_offset |-> "",
           message |-> "", error_code |-> ""]

\* info.match(s) of
\*     ^(?P<filename>[^:]+):(?P<line_no>\d+)(:(?P<col_offset>\d+))?
\*     (:\d+:\d+)?: error: (?P<message>.+)\s+(\[(?P<error_code>.+)\])?
\* with its groups ("" for a group that took no part).  filename runs to the
\* first colon; of the groups :\d+ behind line_no the first is col_offset when
\* there are one or three; message (greedy) runs to the last white space that
\* something precedes; error_code is read when a bracket opens right there.
info_match(s) ==
    LET Code(after, close) ==
            IF Char(after, 1) = "[" /\ close >= 3
            THEN SubSeq(after, 2, close - 1) ELSE ""
        Message(filename, line_no, col_offset, rest, w) ==
            IF w < 2 THEN NoInfo
            ELSE [ok |-> TRUE, filename |-> filename, line_no |-> line_no,
                  col_offset |-> col_offset,
                  message |-> SubSeq(rest, 1, w - 1),
                  error_code |->
                      Code(SubSeq(rest, w + 1, Len(rest)),
                           LastIndexFrom(rest, Len(rest), {"]"}) - w)]
        Rest(filename, line_no, col_offset, rest) ==
            Message(filename, line_no, col_offset, rest,
                    LastIndexFrom(rest, Len(rest), WhiteSpace))
        Numbers(filename, line_no, e, ends) ==
            LET at == IF ends = <<>> THEN e ELSE ends[Len(ends)]
            IN IF Len(ends) > 3 \/ ~StartsWithAt(s, at, ": error: ") THEN NoInfo
               ELSE Rest(filename, line_no,
                         IF Len(ends) \in {1, 3}
                         THEN SubSeq(s, e + 1, ends[1] - 1) ELSE "",
                         SubSeq(s, at + 9, Len(s)))
        LineNo(colon, e) ==
            IF colon < 2 \/ colon > Len(s) \/ e = colon + 1 THEN NoInfo
            ELSE Numbers(SubSeq(s, 1, colon - 1), SubSeq(s, colon + 1, e - 1), e,
                         NumberEnds(s, e, 4))
        FileName(colon) == LineNo(colon, SkipWhile(s, colon + 1, Digits))
    IN FileName(IndexFrom(s, 1, {":"}))

\* MypyError.filename_and_line_number
filename_and_line_number(error) == <<error.filename, error.line_no>>

\* a < b for the tuples (str, int)
KeyLess(a, b) == StrLess(a[1], b[1]) \/ (a[1] = b[1] /\ a[2] < b[2])

\* sorted(errors, key=MypyError.filename_and_line_number) (stable)
RECURSIVE sorted_errors(_)
sorted_errors(xs) ==
    IF xs = <<>> THEN <<>>
    ELSE LET Insert(rest, last) ==
                 LET pos == Cardinality(
                                {i \in 1..Len(rest) :
                                    ~KeyLess(filename_and_line_number(last),
                                             filename_and_line_number(rest[i]))})
                 IN SubSeq(rest, 1, pos) \o <<last>>
                        \o SubSeq(rest, pos + 1, Len(rest))
         IN Insert(sorted_errors(SubSeq(xs, 1, Len(xs) - 1)), xs[Len(xs)])

\* the loop of parse_mypy_report: the errors in the order of the report
RECURSIVE ParsedLines(_)
ParsedLines(report) ==
    IF report = <<>> THEN <<>>
    ELSE LET Parsed(error) ==
                 IF error.ok
                 THEN <<MypyError(error.filename, int(error.line_no),
                                  IF error.col_offset # ""
                                  THEN int(error.col_offset) ELSE NoColumn,
                                  strip(error.message), error.error_code)>>
                 ELSE <<>>
         IN Parsed(info_match(strip(report[1]))) \o ParsedLines(Tail(report))

parse_mypy_report(report) == sorted_errors(ParsedLines(report))

MISSING_ERROR_CODES ==
    "Not all errors in the mypy type checking report have error "
    \o "codes. As a result, mypy-upgrade can only suppress these errors "
    \o "with non-code-specific # type: ignore comments (which will still "
    \o "raise errors when running mypy with --strict enabled). If you "
    \o "would like mypy-upgrade to silence errors with code-specific "
    \o "comments, please run mypy with --show-error-codes enabled. "
    \o "If you would like to suppress this warning, use the "
    \o "--allow-no-error-codes flag for mypy-upgrade."

(***************************************************************************)
(* filter.py: the source and code filters.  A pathlib.Path is the tuple of *)
(* its parts, "/" first when it is absolute.                               *)
(***************************************************************************)

\* pathlib.Path(s): empty and "." components are dropped
Path(s) ==
    LET Parts(parts) == IF startswith(s, "/") THEN <<"/">> \o parts ELSE parts
    IN Parts(SelectSeq(split(s, "/"), LAMBDA part : part \notin {"", "."}))

\* the directory the program runs in
cwd == <<"/", "repo">>

\* the parts of p appended to the absolute path acc, ".." going one level up
RECURSIVE Collapse(_, _)
Collapse(acc, p) ==
    IF p = <<>> THEN acc
    ELSE IF Head(p) = ".."
    THEN Collapse(IF Len(acc) > 1 THEN SubSeq(acc, 1, Len(acc) - 1) ELSE acc,
                  Tail(p))
    ELSE Collapse(Append(acc, Head(p)), Tail(p))

\* Path.resolve() (the file system of the model has no symbolic links)
resolve(p) ==
    IF p # <<>> /\ Head(p) = "/" THEN Collapse(<<"/">>, Tail(p))
    ELSE Collapse(cwd, p)

\* Path.parent, Path.parents of an absolute path
parent(p) == IF Len(p) > 1 THEN SubSeq(p, 1, Len(p) - 1) ELSE p

\* Path.parents that holds the directory of the path only
ParentOnly(p) == {SubSeq(p, 1, Len(p) - 1)}

parents(p) == {SubSeq(p, 1, k) : k \in 1..(Len(p) - 1)}

\* importlib.util.find_spec(module) in the environment of the model: the
\* exception it raises, the kind of spec.loader ("None" when the spec is None),
\* spec.origin, the loader's file name and is_package
ModuleSpec(loader, origin, filename, is_package) ==
    [exc |-> "", loader |-> loader, origin |-> origin, filename |-> filename,
     is_package |-> is_package]

find_spec(module) ==
    CASE module = "pkg" ->
           ModuleSpec("ExecutionLoader", "/repo/pkg/__init__.py",
                      "/repo/pkg/__init__.py", TRUE)
      [] module = "pkg.sub" ->
           ModuleSpec("ExecutionLoader", "/repo/pkg/sub/__init__.py",
                      "/repo/pkg/sub/__init__.py", TRUE)
      [] module = "pkg.sub.m" ->
           ModuleSpec("ExecutionLoader", "/repo/pkg/sub/m.py",
                      "/repo/pkg/sub/m.py", FALSE)
      [] module = "a" ->
           ModuleSpec("ExecutionLoader", "/repo/a.py", "/repo/a.py", FALSE)
      [] module = "zipimport" ->
           ModuleSpec("FrozenImporter", "frozen", "/usr/lib/zipimport.py", FALSE)
      [] module = "sys" ->
           ModuleSpec("BuiltinImporter", "built-in", "", FALSE)
      [] module = "nowhere.sub" ->
           [ModuleSpec("None", "", "", FALSE) EXCEPT !.exc = "ModuleNotFoundError"]
      [] OTHER -> ModuleSpec("None", "", "", FALSE)

\* None in a list of paths
NoPath == <<"">>

\* the body of the loop of _get_module_paths: the path of one module
ModulePath(module) ==
    LET Found(spec) ==
            IF spec.exc # "" THEN Raise(spec.exc)
            ELSE IF spec.loader = "None" THEN Return(NoPath)
            ELSE IF spec.loader = "ExecutionLoader"
            THEN Return(IF spec.is_package THEN parent(Path(spec.filename))
                        ELSE Path(spec.filename))
            ELSE IF spec.origin = "frozen" THEN Return(Path(spec.filename))
            ELSE Raise("NotImplementedError")
    IN Found(find_spec(module))

RECURSIVE _get_module_paths(_)
_get_module_paths(modules) ==
    IF modules = <<>> THEN Return(<<>>)
    ELSE LET Paths(path, rest) ==
                 IF path.exc # "" THEN path
                 ELSE IF rest.exc # "" THEN rest
                 ELSE Return(<<path.val>> \o rest.val)
         IN Paths(ModulePath(modules[1]), _get_module_paths(Tail(modules)))

\* [f(x) for x in xs]
Resolved(files) == [i \in 1..Len(files) |-> resolve(Path(files[i]))]

\* filter_by_source: the returned list, or the exception of _get_module_paths
filter_by_source(errors, packages, modules, files) ==
    LET Selected(paths) ==
            SelectSeq(errors, LAMBDA error :
                \E path \in Range(paths) :
                   \/ path \in parents(resolve(Path(error.filename)))
                   \/ path = resolve(Path(error.filename)))
        Found(package_paths, module_paths) ==
            IF package_paths.exc # "" THEN Raise(package_paths.exc)
            ELSE IF module_paths.exc # "" THEN Raise(module_paths.exc)
            ELSE Return(Selected(
                     SelectSeq(package_paths.val, LAMBDA p : p # NoPath)
                     \o SelectSeq(module_paths.val, LAMBDA m : m # NoPath)
                     \o Resolved(files)))
    IN IF Len(packages \o modules \o files) = 0 THEN Return(errors)
       ELSE Found(_get_module_paths(packages), _get_module_paths(modules))

\* codes_to_silence: None, or a list of codes
None == [none |-> TRUE, list |-> <<>>]
Some(list) == [none |-> FALSE, list |-> list]

\* filter_by_code: every diagnostic when no list is given, else those whose
\* code is in the list
filter_by_code(errors, codes_to_silence) ==
    IF codes_to_silence = None THEN errors
    ELSE SelectSeq(errors, LAMBDA error :
                       error.error_code \in Range(codes_to_silence.list))

\* packages, modules, files and codes_to_silence of silence_errorsin_report
Criteria(packages, modules, files, codes_to_silence) ==
    [packages |-> packages, modules |-> modules, files |-> files,
     codes_to_silence |-> codes_to_silence]

NoCriteria == Criteria(<<>>, <<>>, <<>>, None)

(***************************************************************************)
(* silence.py: the file object                                             *)
(***************************************************************************)

\* len(text) for the text whose lines are given
Length(lines) == Len(join(lines, "\n"))

\* SeekAndWrite that writes whatever dry_run says
WriteWhateverDryRun(raw_code, start, lines, dry_run) ==
    [content |-> _writelines(lines),
     position |-> start + Length(_writelines(lines))]

\* file.write(text) at a position of a file that holds old: the text replaces
\* what was there, the rest stays
Overwrite(old, at, text) ==
    SubSeq(old, 1, at) \o text \o SubSeq(old, at + Len(text) + 1, Len(old))

\* file.truncate(): the content ends at the position of the file
Truncate(text, at) == SubSeq(text, 1, at)

\* SeekAndWrite without the truncation
WriteWithoutTruncate(raw_code, start, lines, dry_run) ==
    IF dry_run THEN [content |-> raw_code, position |-> start]
    ELSE LET Written(text) ==
                 [content |-> split(Overwrite(join(raw_code, "\n"), start, text),
                                    "\n"),
                  position |-> start + Len(text)]
         IN Written(join(_writelines(lines), "\n"))

\* file.seek(start) and, unless dry_run, the write and the truncation: the
\* content (as lines) and the position of the file afterwards
SeekAndWrite(raw_code, start, lines, dry_run) ==
    IF dry_run THEN [content |-> raw_code, position |-> start]
    ELSE LET Written(text) ==
                 [content |-> split(Truncate(Overwrite(join(raw_code, "\n"),
                                                       start, text),
                                             start + Len(text)),
                                    "\n"),
                  position |-> start + Len(text)]
         IN Written(join(_writelines(lines), "\n"))

(***************************************************************************)
(* silence.py: the warnings of silence_errors_in_report                    *)
(***************************************************************************)

\* TRY_SHOW_ABSOLUTE_PATH.format(filename)
TRY_SHOW_ABSOLUTE_PATH(filename) ==
    "Unable to find file " \o filename \o ". This may be due to running "
    \o "mypy in a different directory than mypy-upgrade. Please try "
    \o "running mypy with the --show-absolute-path flag set."

\* f"Unable to tokenize file: {filename}"
UnableToTokenize(filename) == "Unable to tokenize file: " \o filename

(***************************************************************************)
(* utils.py: the unsilenceable regions of a text stream and the corrected  *)
(* line numbers.  A region's start and end are the tuples <<line, column>> *)
(* of the tokenizer; the end column -1 marks an explicitly continued line. *)
(***************************************************************************)

\* a <= b on Python 2-tuples of integers
TupleLeq(a, b) == a[1] < b[1] \/ (a[1] = b[1] /\ a[2] <= b[2])

\* math.isfinite on an integer
isfinite(x) == x \in Int

\* the regions of the multi-line strings in token order, then one region per
\* token of a line that ends in a backslash and is the line of no comment
find_unsilenceable_regions(stream) ==
    LET Found(all_lines) ==
            LET strings ==
                    SelectSeq(all_lines, LAMBDA token :
                        /\ token.start[1] # token.end[1]
                        /\ token.type = "STRING")
                comments == SelectSeq(all_lines, LAMBDA t : t.type = "COMMENT")
                continued ==
                    SelectSeq(all_lines, LAMBDA token :
                        /\ endswith(rstrip(token.line, {"\r", "\n"}), "\\")
                        /\ \A k \in 1..Len(comments) :
                              comments[k].line # token.line)
            IN [k \in 1..Len(strings) |->
                   UnsilenceableRegion(strings[k].start, strings[k].end)]
               \o [k \in 1..Len(continued) |->
                      UnsilenceableRegion(<<continued[k].end[1], 0>>,
                                          <<continued[k].end[1], -1>>)]
        Tokenized(tokens) ==
            IF tokens.exc # "" THEN tokens ELSE Return(Found(tokens.val))
    IN Tokenized(generate_tokens(stream))

\* the loop of find_safe_end_line from region k on: returned when the loop
\* returned -1, otherwise new = <<new_line, new_col_offset>> (<<>> for None)
RECURSIVE SafeEndLoop(_, _, _, _)
SafeEndLoop(error, unsilenceable_regions, k, new) ==
    IF k > Len(unsilenceable_regions) THEN [returned |-> FALSE, new |-> new]
    ELSE LET region == unsilenceable_regions[k]
             at == <<error.line_no, error.col_offset>>
         IN IF /\ error.line_no = region.end[1]
               /\ region.start[1] # region.end[1]
            THEN SafeEndLoop(error, unsilenceable_regions, k + 1, new)
            ELSE IF \/ /\ error.col_offset = NoColumn
                       /\ region.start[1] <= error.line_no
                       /\ error.line_no <= region.end[1]
                    \/ /\ error.col_offset # NoColumn
                       /\ TupleLeq(region.start, at)
                       /\ TupleLeq(at, region.end)
            THEN [returned |-> TRUE, new |-> new]
            ELSE IF /\ error.line_no = region.start[1]
                    /\ region.start[1] # region.end[1]
                    /\ isfinite(region.end[2])
            THEN SafeEndLoop(error, unsilenceable_regions, k + 1,
                             <<region.end[1], region.end[2]>>)
            ELSE SafeEndLoop(error, unsilenceable_regions, k + 1, new)

\* find_safe_end_line, called with the diagnostics of the calls it is nested
\* in: the recursion on a diagnostic that is one of them never returns, and
\* ends in a RecursionError
RECURSIVE FindSafeEndLineIn(_, _, _)
FindSafeEndLineIn(error, unsilenceable_regions, calls) ==
    LET Looped(loop) ==
            IF loop.returned THEN Return(-1)
            ELSE IF loop.new = <<>> THEN Return(error.line_no)
            ELSE LET new_error ==
                         MypyError(error.filename, loop.new[2], loop.new[1],
                                   error.message, error.error_code)
                 IN IF new_error \in calls THEN Raise("RecursionError")
                    ELSE FindSafeEndLineIn(new_error, unsilenceable_regions,
                                           calls \cup {new_error})
    IN Looped(SafeEndLoop(error, unsilenceable_regions, 1, <<>>))

find_safe_end_line(error, unsilenceable_regions) ==
    FindSafeEndLineIn(error, unsilenceable_regions, {error})

\* the loop of correct_line_numbers over the diagnostics
RECURSIVE CorrectEach(_, _, _, _)
CorrectEach(errors, unsilenceable_regions, corrected, excluded) ==
    IF errors = <<>> THEN Return(<<corrected, excluded>>)
    ELSE LET error == Head(errors)
             Found(end_line) ==
                 IF end_line.exc # "" THEN end_line
                 ELSE IF end_line.val = -1
                 THEN CorrectEach(Tail(errors), unsilenceable_regions,
                                  corrected, Append(excluded, error))
                 ELSE CorrectEach(Tail(errors), unsilenceable_regions,
                                  Append(corrected,
                                         MypyError(error.filename,
                                                   error.col_offset,
                                                   end_line.val, error.message,
                                                   error.error_code)),
                                  excluded)
         IN Found(find_safe_end_line(error, unsilenceable_regions))

correct_line_numbers(stream, errors) ==
    LET Regioned(unsilenceable_regions) ==
            IF unsilenceable_regions.exc # "" THEN unsilenceable_regions
            ELSE CorrectEach(errors, unsilenceable_regions.val, <<>>, <<>>)
    IN Regioned(find_unsilenceable_regions(stream))

(***************************************************************************)
(* cli.py: mypy_upgrade.  The lines of a file are kept without their       *)
(* terminators.                                                            *)
(***************************************************************************)

\* the MypyUpgradeResult of cli.py
CliResult(silenced_, not_silenced_, messages_) ==
    [silenced |-> silenced_, not_silenced |-> not_silenced_,
     messages |-> messages_]

\* warnings.TRY_SHOW_ABSOLUTE_PATH.replace("{filename}", filename)
TryShowAbsolutePath(filename) ==
    "Unable to find file " \o filename \o ". This may be due to running"
    \o "mypy in a different directory than mypy-upgrade. Please try "
    \o "running mypy with the --show-absolute-path flag set."

\* silence.silence_errors: the line with the comment of the line replaced by
\* the suppression comment for the diagnostics
silence_errors(line, errors, description_style, fix_me) ==
    LET at == IndexFrom(line, 1, {"#"})
        code == SubSeq(line, 1, at - 1)
    IN {IF new_comment.exc # "" THEN new_comment
        ELSE Return(WrittenLine(CommentSplitLine(code, new_comment.val)))
        : new_comment \in
              create_suppression_comment(SubSeq(line, at, Len(line)), errors,
                                         description_style, fix_me)}

\* the loop of mypy_upgrade over the line groups of a file: lines[-1] is the
\* last line, and None - 1 is a TypeError
RECURSIVE SilenceLines(_, _, _, _)
SilenceLines(lines, groups, description_style, fix_me) ==
    IF groups = <<>> THEN {[exc |-> "", lines |-> lines]}
    ELSE LET line_number == groups[1][1].line_no
             i == IF line_number = 0 THEN Len(lines) ELSE line_number
         IN IF line_number = NoColumn
            THEN {[exc |-> "TypeError", lines |-> lines]}
            ELSE IF i < 1 \/ i > Len(lines)
            THEN {[exc |-> "IndexError", lines |-> lines]}
            ELSE UNION {
                IF new_line.exc # ""
                THEN {[exc |-> new_line.exc, lines |-> lines]}
                ELSE SilenceLines([lines EXCEPT ![i] = new_line.val],
                                  Tail(groups), description_style, fix_me)
                : new_line \in silence_errors(lines[i], groups[1],
                                              description_style, fix_me)}

\* the body of the loop of mypy_upgrade for a file that exists: the exception
\* that escapes it, or the two lists of correct_line_numbers and the lines
\* written back
SilenceFile(content, errors, description_style, fix_me) ==
    LET Corrected(lists) ==
            IF lists.exc # ""
            THEN {[exc |-> lists.exc, safe_to_silence |-> <<>>,
                   unsafe_to_silence |-> <<>>, lines |-> content]}
            ELSE {[exc |-> done.exc, safe_to_silence |-> lists.val[1],
                   unsafe_to_silence |-> lists.val[2], lines |-> done.lines]
                  : done \in SilenceLines(content,
                                          groupby(lists.val[1], "line_no"),
                                          description_style, fix_me)}
    IN Corrected(correct_line_numbers(content, errors))

(***************************************************************************)
(* Bounds and inputs                                                       *)
(***************************************************************************)

\* the longest file of SpecFile, in lines
MaxLines == 3
\* the largest group of diagnostics on one line in SpecComment
MaxGroup == 2
\* the number of times the report is processed in Spec
MaxRuns == 2

DescriptionStyles == {"none", "full"}
FixMes == {"", "FIX ME"}

\* the diagnostics mypy reports on a line, without their position
Diagnostic(message, error_code) == [message |-> message, error_code |-> error_code]

At(filename, line_no, d) == MypyError(filename, line_no, 0, d.message, d.error_code)

NameDefined == Diagnostic("Name \"y\" is not defined", "name-defined")
ArgType == Diagnostic("Incompatible argument", "arg-type")
Assignment == Diagnostic("Incompatible types in assignment", "assignment")
NoCode == Diagnostic("Unexpected keyword", "")
Syntax == Diagnostic("invalid syntax", "syntax")
UnusedIgnore == Diagnostic("Unused \"type: ignore\" comment", "unused-ignore")
UnusedOverride ==
    Diagnostic("Unused \"type: ignore[override]\" comment", "unused-ignore")
UnusedAssignment ==
    Diagnostic("Unused \"type: ignore[assignment]\" comment", "unused-ignore")
UnusedBoth ==
    Diagnostic("Unused \"type: ignore[assignment, override]\" comment",
               "unused-ignore")
WithoutCode ==
    Diagnostic("\"type: ignore\" comment without error code", "ignore-without-code")
WithoutCodeSuggested ==
    Diagnostic("\"type: ignore\" comment without error code (consider \"type: ignore[arg-type]\" instead)",
               "ignore-without-code")

\* all the sequences over S of length 1..n
SeqsUpTo(S, n) == UNION {[1..k -> S] : k \in 1..n}

\* the subsequences of xs
RECURSIVE SubSeqs(_)
SubSeqs(xs) ==
    IF xs = <<>> THEN {<<>>}
    ELSE LET rest == SubSeqs(Tail(xs))
         IN rest \cup {<<xs[1]>> \o r : r \in rest}

\* SpecComment: the comment of the line and the diagnostics of the line
Clauses == {"", "# type: ignore", "# type: ignore[assignment]",
            "# type: ignore[override]", "# type: ignore[assignment, override]",
            "# type: ignore[assignment, assignment]"}
FreeTexts == {"", "# noqa", "# description with 'type: ignore' comment",
              "# foo, bar"}
Comments == {strip(c \o " " \o t) : c \in Clauses, t \in FreeTexts}
LineDiagnostics == {ArgType, Assignment, NoCode, UnusedIgnore, UnusedOverride,
                    UnusedBoth, WithoutCode, WithoutCodeSuggested}

\* SpecFile: the lines of the file and the diagnostic reported in it
LineTexts == {"print(y)", "x = 5  # type: ignore[assignment]", "x = i\\",
              "x = '''a", "z'''", "z''' \\", "z''' + \\", "z''' + '''c",
              "y = 1 # noqa", "y = 1# noqa", "y = 1 # type: ignore"}
FileDiagnostics == {NameDefined, Syntax, UnusedIgnore}

\* Spec: the files on disk and the report, sorted by file name and line number
Filenames == {"a.py", "b.py"}
Contents(filename) ==
    IF filename = "a.py"
    THEN {<<"x = 5  # type: ignore[assignment]",
            "y = f(x)  # type: ignore[arg-type]">>,
          <<"x = 5  # type: ignore", "print(y)">>,
          <<"x = i\\">>,
          <<"f(x">>,
          <<"print(y)">>}
    ELSE {<<"x = 5  # type: ignore[assignment]">>,
          <<"print(y)">>,
          <<"x = '''a">>}

\* the criteria given to silence_errors_in_report
ReportCriteria ==
    {NoCriteria,
     Criteria(<<>>, <<>>, <<"./a.py">>, None),
     Criteria(<<>>, <<"sys">>, <<>>, None),
     Criteria(<<>>, <<>>, <<>>, Some(<<"arg-type">>))}

MasterReport == <<At("a.py", 1, ArgType), At("a.py", 1, UnusedAssignment),
                  At("a.py", 2, Assignment), At("a.py", 2, Syntax),
                  At("b.py", 1, ArgType), At("b.py", 1, UnusedIgnore)>>

(***************************************************************************)
(* The state                                                               *)
(***************************************************************************)

VARIABLES
    pc,                 \* where the call is
    exc,                \* the exception that escaped the call ("" if none)
    errors,             \* the diagnostics given to the call
    description_style,
    fix_me,
    dry_run,
    criteria,           \* packages, modules, files and codes_to_silence
    comment,            \* create_suppression_comment: the comment of the line
    new_comment,        \* create_suppression_comment: the returned comment
    files,              \* the content of each file on disk, as its lines
    lines,              \* silence_errors_in_file: the CommentSplitLines read
    safe_to_silence,    \* silence_errors_in_file: the accepted diagnostics
    returned,           \* silence_errors_in_file: the returned list
    position,           \* silence_errors_in_file: the position of the file object
    selected,           \* filter_by_source: the returned list
    code_filtered_errors,   \* silence_errors_in_report: the filtered diagnostics
    groups,             \* silence_errors_in_report: the files still to process
    silenced,           \* silence_errors_in_report: the silenced diagnostics
    log,                \* the warnings the call logged itself
    result,             \* silence_errors_in_report: the MypyUpgradeResult
    run,                \* the number of the run of silence_errors_in_report
    first,              \* the files and pc at the end of the first run
    before,             \* the files when the run started
    report,             \* parse_mypy_report: the lines of the report
    string,             \* string_to_error_codes: its argument
    codes_in_message,   \* string_to_error_codes: the returned tuple
    codes_to_remove,    \* remove_unused_type_ignore_comments: the codes to remove
    details,            \* _extract_error_details: the returned lists
    stream,             \* correct_line_numbers: the lines of the text stream
    line_corrected_errors,  \* correct_line_numbers: the first returned list
    excluded_errors,    \* correct_line_numbers: the second returned list
    end_line,           \* find_safe_end_line: the returned line
    not_silenced,       \* mypy_upgrade: the diagnostics that were not silenced
    messages            \* mypy_upgrade: the messages for the user

vars == <<pc, exc, errors, description_style, fix_me, dry_run, criteria, comment,
          new_comment, files, lines, safe_to_silence, returned, position,
          selected, code_filtered_errors, groups, silenced, log, result, run,
          first, before, report, string, codes_in_message,
          codes_to_remove,
          details,
          stream, line_corrected_errors, excluded_errors, end_line,
          not_silenced, messages>>

commentVars == <<comment, new_comment>>
fileVars == <<lines, safe_to_silence, returned, position>>
filterVars == <<selected, code_filtered_errors, before>>
reportVars == <<groups, silenced, result, run, first, filterVars, log>>
options == <<errors, description_style, fix_me, dry_run, criteria>>
parsingVars == <<report, string, codes_in_message>>
editingVars == <<codes_to_remove>>
detailVars == <<details>>
utilsVars == <<stream, line_corrected_errors, excluded_errors, end_line>>
cliVars == <<not_silenced, messages>>

NoComment == /\ comment = "" /\ new_comment = ""
NoFile ==
    /\ lines = <<>> /\ safe_to_silence = <<>> /\ returned = <<>>
    /\ position = 0
NoReport ==
    /\ groups = <<>> /\ silenced = <<>> /\ result = NoResult
    /\ run = 1 /\ first = <<>>
    /\ selected = <<>> /\ code_filtered_errors = <<>> /\ before = <<>>
    /\ log = <<>>
NoParsing == /\ report = <<>> /\ string = "" /\ codes_in_message = <<>>
NoEditing == codes_to_remove = <<>>
NoErrorDetails == details = NoDetails
NoUtils ==
    /\ stream = <<>> /\ line_corrected_errors = <<>>
    /\ excluded_errors = <<>> /\ end_line = 0
NoCli == not_silenced = <<>> /\ messages = <<>>

(***************************************************************************)
(* SpecComment: create_suppression_comment on one line's comment           *)
(***************************************************************************)

InitComment ==
    /\ pc = "call" /\ exc = ""
    /\ comment \in Comments
    /\ new_comment = ""
    /\ errors \in {[i \in DOMAIN g |-> At("f.py", 1, g[i])] :
                     g \in SeqsUpTo(LineDiagnostics, MaxGroup)}
    /\ description_style \in DescriptionStyles
    /\ fix_me \in FixMes
    /\ dry_run = FALSE
    /\ criteria = NoCriteria
    /\ files = <<>>
    /\ NoFile /\ NoReport /\ NoParsing /\ NoEditing /\ NoErrorDetails /\
       NoUtils /\ NoCli

\* create_suppression_comment: _extract_error_details returns details, the
\* rest of the body returns the comment or raises
CreateSuppressionComment ==
    /\ pc = "call"
    /\ \E d \in _extract_error_details(errors) :
          LET Returned(out) ==
                  /\ exc' = out.exc
                  /\ new_comment' = IF out.exc = "" THEN out.val ELSE new_comment
                  /\ pc' = IF out.exc = "" THEN "returned" ELSE "raised"
          IN /\ details' = d
             /\ Returned(SuppressionCommentFrom(comment, d, description_style,
                                                fix_me))
    /\ UNCHANGED <<options, comment, files, fileVars, reportVars, parsingVars,
                   editingVars, utilsVars, cliVars>>

NextComment == CreateSuppressionComment

SpecComment == InitComment /\ [][NextComment]_vars

(***************************************************************************)
(* SpecEditing: remove_unused_type_ignore_comments on one comment          *)
(***************************************************************************)

\* the comments given to remove_unused_type_ignore_comments: a suppression
\* clause with its codes, between the text before and after it
Clause(before_, codes, after) == [before |-> before_, codes |-> codes, after |-> after]

ClauseText(c) ==
    c.before \o "type: ignore[" \o join(c.codes, ", ") \o "]" \o c.after

EditedClauses ==
    {Clause("# ", codes, after) :
        codes \in {<<"override">>, <<"return-value">>, <<"return", "return-value">>,
                   <<"arg-type", "override">>, <<"arg-type", "return">>},
        after \in {"", "  # noqa", " # override this"}}

\* the longest list of codes to remove
MaxRemove == 2
RemovableCodes == {"return", "override", "arg-type", "*"}

InitEditing ==
    /\ pc = "call" /\ exc = ""
    /\ comment \in {ClauseText(c) : c \in EditedClauses} \cup {"# type: ignore", "# noqa"}
    /\ new_comment = ""
    /\ codes_to_remove \in {<<>>} \cup SeqsUpTo(RemovableCodes, MaxRemove)
    /\ errors = <<>>
    /\ description_style = "none"
    /\ fix_me = ""
    /\ dry_run = FALSE
    /\ criteria = NoCriteria
    /\ files = <<>>
    /\ NoFile /\ NoReport /\ NoParsing /\ NoErrorDetails /\ NoUtils /\ NoCli

\* remove_unused_type_ignore_comments(comment, codes_to_remove)
RemoveUnusedTypeIgnoreComments ==
    /\ pc = "call"
    /\ LET Returned(out) ==
               /\ exc' = out.exc
               /\ new_comment' = IF out.exc = "" THEN out.val ELSE new_comment
               /\ pc' = IF out.exc = "" THEN "returned" ELSE "raised"
       IN Returned(remove_unused_type_ignore_comments(comment, codes_to_remove))
    /\ UNCHANGED <<options, comment, files, fileVars, reportVars, parsingVars,
                   editingVars, detailVars, utilsVars, cliVars>>

NextEditing == RemoveUnusedTypeIgnoreComments

SpecEditing == InitEditing /\ [][NextEditing]_vars

(***************************************************************************)
(* SpecUtils: correct_line_numbers on a text stream and its diagnostics,   *)
(* find_safe_end_line on the first of them                                 *)
(***************************************************************************)

\* the longest text stream, in lines
MaxStream == 4
\* the largest number of diagnostics of the stream
MaxErrors == 2

StreamTexts == {"z = 1", "x = 1 +\\", "xx = '''a", "'''", "b''' + '''c"}
Columns == {NoColumn, 0, 6}

\* the diagnostics of a stream of n lines, in the order of the report
StreamErrors(n) ==
    {es \in SeqsUpTo({MypyError("a.py", l, c, "m", "misc") :
                         l \in 1..n, c \in Columns}, MaxErrors) :
        \A i \in 1..Len(es) - 1 : es[i].line_no <= es[i + 1].line_no}

InitUtils ==
    /\ pc = "call" /\ exc = ""
    /\ stream \in SeqsUpTo(StreamTexts, MaxStream)
    /\ errors \in StreamErrors(Len(stream))
    /\ line_corrected_errors = <<>> /\ excluded_errors = <<>> /\ end_line = 0
    /\ description_style = "none"
    /\ fix_me = ""
    /\ dry_run = FALSE
    /\ criteria = NoCriteria
    /\ files = <<>>
    /\ NoComment /\ NoFile /\ NoReport /\ NoParsing /\ NoEditing
    /\ NoErrorDetails /\ NoCli

\* correct_line_numbers(stream, errors)
CorrectLineNumbers ==
    /\ pc = "call"
    /\ LET Returned(out) ==
               /\ exc' = out.exc
               /\ pc' = IF out.exc = "" THEN "corrected" ELSE "raised"
               /\ line_corrected_errors' =
                      IF out.exc = "" THEN out.val[1] ELSE line_corrected_errors
               /\ excluded_errors' =
                      IF out.exc = "" THEN out.val[2] ELSE excluded_errors
       IN Returned(correct_line_numbers(stream, errors))
    /\ UNCHANGED <<options, commentVars, files, fileVars, reportVars,
                   parsingVars, editingVars, detailVars, stream, end_line,
                   cliVars>>

\* find_safe_end_line(errors[0], find_unsilenceable_regions(stream))
FindSafeEndLine ==
    /\ pc = "call"
    /\ find_unsilenceable_regions(stream).exc = ""
    /\ LET Returned(out) ==
               /\ exc' = out.exc
               /\ pc' = IF out.exc = "" THEN "found" ELSE "unfinished"
               /\ end_line' = IF out.exc = "" THEN out.val ELSE end_line
       IN Returned(find_safe_end_line(errors[1],
                                      find_unsilenceable_regions(stream).val))
    /\ UNCHANGED <<options, commentVars, files, fileVars, reportVars,
                   parsingVars, editingVars, detailVars, stream,
                   line_corrected_errors, excluded_errors, cliVars>>

NextUtils == CorrectLineNumbers \/ FindSafeEndLine

SpecUtils == InitUtils /\ [][NextUtils]_vars

(***************************************************************************)
(* SpecFile: silence_errors_in_file on one file with one diagnostic        *)
(***************************************************************************)

InitFile ==
    /\ pc = "call" /\ exc = ""
    /\ \E content \in SeqsUpTo(LineTexts, MaxLines) :
          /\ files = [f \in {"f.py"} |-> content]
          /\ errors \in {<<At("f.py", l, d)>> :
                           l \in 1..Len(content), d \in FileDiagnostics}
    /\ description_style = "none"
    /\ fix_me = ""
    /\ dry_run \in BOOLEAN
    /\ criteria = NoCriteria
    /\ NoComment /\ NoFile /\ NoReport /\ NoParsing /\ NoEditing /\
       NoErrorDetails /\ NoUtils /\ NoCli

\* silence_errors_in_file up to the filter
Analyse ==
    /\ pc = "call"
    /\ LET raw_code == files[errors[1].filename]
           Split(tokens, split_lines) ==
               /\ lines' = split_lines
               /\ safe_to_silence' =
                      filter_by_silenceability(errors, CommentsOf(split_lines),
                                               tokens)
           Tokenized(tokens) ==
               IF tokens.exc # ""
               THEN /\ pc' = "raised"
                    /\ exc' = tokens.exc
                    /\ UNCHANGED <<lines, safe_to_silence>>
               ELSE /\ pc' = "filtered"
                    /\ exc' = exc
                    /\ Split(tokens.val,
                             split_into_code_and_comment(raw_code, tokens.val))
       IN /\ Tokenized(generate_tokens(raw_code))
          /\ position' = position + Length(raw_code)
    /\ UNCHANGED <<options, commentVars, files, returned, reportVars,
                   parsingVars, editingVars, detailVars, utilsVars, cliVars>>

\* silence_errors_in_file from the loop over the line groups on
Rewrite ==
    /\ pc = "filtered"
    /\ \E done \in SilenceGroups(lines, groupby(safe_to_silence, "line_no"),
                                 description_style, fix_me) :
          IF done.exc # ""
          THEN /\ pc' = "raised"
               /\ exc' = done.exc
               /\ UNCHANGED <<files, position, returned>>
          ELSE LET Written(file) ==
                       /\ files' = [files EXCEPT ![errors[1].filename] =
                                        file.content]
                       /\ position' = file.position
               IN /\ pc' = "returned"
                  /\ Written(SeekAndWrite(files[errors[1].filename], 0,
                                          done.lines, dry_run))
                  /\ returned' = safe_to_silence
                  /\ exc' = exc
    /\ UNCHANGED <<options, commentVars, lines, safe_to_silence, reportVars,
                   parsingVars, editingVars, detailVars, utilsVars, cliVars>>

NextFile == Analyse \/ Rewrite

SpecFile == InitFile /\ [][NextFile]_vars

(***************************************************************************)
(* SpecParsing: parse_mypy_report on a report, string_to_error_codes on a  *)
(* message                                                                 *)
(***************************************************************************)

\* str(n) for n >= 0
RECURSIVE str(_)
str(n) ==
    IF n < 10 THEN Char("0123456789", n + 1)
    ELSE str(n \div 10) \o Char("0123456789", (n % 10) + 1)

\* the line mypy prints for a diagnostic: end is "" or the end position
\* ":<endline>:<endcol>", col_offset may be NoColumn, error_code may be ""
ReportLine(d) ==
    d.filename \o ":" \o str(d.line_no)
    \o (IF d.col_offset = NoColumn THEN "" ELSE ":" \o str(d.col_offset))
    \o d.end \o ": error: " \o d.message
    \o (IF d.error_code = "" THEN "" ELSE "  [" \o d.error_code \o "]")

Reported(filename, line_no, col_offset, end, message, error_code) ==
    [filename |-> filename, line_no |-> line_no, col_offset |-> col_offset,
     end |-> end, message |-> message, error_code |-> error_code]

\* the longest report of SpecParsing, in lines
MaxReport == 3

\* the diagnostics of the reports
ReportDiagnostics ==
    {Reported("b.py", 2, NoColumn, "", "Incompatible argument", "arg-type"),
     Reported("a.py", 10, 5, "", "Name \"y\" is not defined", "name-defined"),
     Reported("a.py", 2, 5, ":2:7", "Incompatible types in assignment",
              "assignment"),
     Reported("a.py", 2, NoColumn, "", "Unused \"type: ignore\" comment",
              "unused-ignore"),
     Reported("a.py", 2, NoColumn, "", "Unexpected keyword", ""),
     Reported("b.py", 2, NoColumn, "", "Oops", "")}

\* the lines of a report that are no diagnostics
OtherLines ==
    {"a.py:2: note: See the documentation",
     "Found 2 errors in 1 file (checked 1 source file)",
     ""}

ReportLines == {ReportLine(d) : d \in ReportDiagnostics} \cup OtherLines

\* the phrases of the messages given to string_to_error_codes
Phrases ==
    {"comment", "\"type: ignore\"", "\"type: ignore[override]\"",
     "\"type: ignore[assignment, override]\"",
     "\"type: ignore[ override ,arg-type]\"",
     "\"type: ignore[override, override]\""}

\* the largest number of phrases in a message
MaxPhrases == 3

Messages == {join(phrases, " ") : phrases \in SeqsUpTo(Phrases, MaxPhrases)}

InitParsing ==
    /\ exc = ""
    /\ \/ /\ pc = "parse"
          /\ report \in SeqsUpTo(ReportLines, MaxReport)
          /\ string = ""
       \/ /\ pc = "extract"
          /\ report = <<>>
          /\ string \in Messages
    /\ codes_in_message = <<>>
    /\ errors = <<>>
    /\ description_style = "none"
    /\ fix_me = ""
    /\ dry_run = FALSE
    /\ criteria = NoCriteria
    /\ files = <<>>
    /\ NoComment /\ NoFile /\ NoReport /\ NoEditing /\ NoErrorDetails /\
       NoUtils /\ NoCli

\* parse_mypy_report(report=report)
ParseMypyReport ==
    /\ pc = "parse"
    /\ errors' = parse_mypy_report(report)
    /\ log' = IF \E i \in 1..Len(errors') : errors'[i].error_code = ""
              THEN <<MISSING_ERROR_CODES>> ELSE <<>>
    /\ pc' = "parsed"
    /\ UNCHANGED <<exc, description_style, fix_me, dry_run, criteria,
                   commentVars, files, fileVars, groups, silenced, result, run,
                   first, filterVars, parsingVars, editingVars, detailVars,
                   utilsVars, cliVars>>

\* string_to_error_codes(string=string): the tuple of the set of codes, in one
\* of its orders
StringToErrorCodes ==
    /\ pc = "extract"
    /\ codes_in_message' \in Orders(string_to_error_codes(string))
    /\ pc' = "extracted"
    /\ UNCHANGED <<exc, options, commentVars, files, fileVars, reportVars,
                   report, string, editingVars, detailVars, utilsVars,
                   cliVars>>

NextParsing == ParseMypyReport \/ StringToErrorCodes

SpecParsing == InitParsing /\ [][NextParsing]_vars

(***************************************************************************)
(* SpecFilter: filter_by_source on a list of diagnostics                   *)
(***************************************************************************)

\* the diagnostics given to filter_by_source
FilterReport ==
    <<At("/repo/a.py", 1, ArgType),
      At("./pkg/sub/deep/k.py", 1, ArgType),
      At("other/a.py", 1, ArgType),
      At("pkg/sub/../m.py", 1, ArgType),
      At("pkg/sub/m.py", 1, ArgType),
      At("pkg/subx/m.py", 1, ArgType)>>

\* the packages, modules and files given to filter_by_source
PackageLists == {<<>>, <<"pkg">>, <<"pkg.sub">>, <<"nowhere">>,
                 <<"nowhere", "pkg.sub">>}
ModuleLists == {<<>>, <<"pkg.sub.m">>, <<"a">>, <<"zipimport">>, <<"sys">>,
                <<"nowhere.sub">>}
FileLists == {<<>>, <<"pkg/subx">>, <<"./pkg/m.py">>, <<"/repo/other">>}

InitFilter ==
    /\ pc = "filter" /\ exc = ""
    /\ errors \in SubSeqs(FilterReport)
    /\ criteria \in {Criteria(packages, modules, paths, None) :
                        packages \in PackageLists, modules \in ModuleLists,
                        paths \in FileLists}
    /\ description_style = "none"
    /\ fix_me = ""
    /\ dry_run = FALSE
    /\ files = <<>>
    /\ NoComment /\ NoFile /\ NoReport /\ NoParsing /\ NoEditing /\
       NoErrorDetails /\ NoUtils /\ NoCli

\* filter_by_source(errors=errors, packages=packages, modules=modules,
\* files=files)
FilterBySource ==
    /\ pc = "filter"
    /\ LET Returned(out) ==
               IF out.exc # ""
               THEN /\ pc' = "raised"
                    /\ exc' = out.exc
                    /\ UNCHANGED selected
               ELSE /\ pc' = "selected"
                    /\ exc' = exc
                    /\ selected' = out.val
       IN Returned(filter_by_source(errors, criteria.packages, criteria.modules,
                                    criteria.files))
    /\ UNCHANGED <<options, commentVars, files, fileVars, groups, silenced,
                   result, run, first, code_filtered_errors, before, log,
                   parsingVars, editingVars, detailVars, utilsVars, cliVars>>

NextFilter == FilterBySource

SpecFilter == InitFilter /\ [][NextFilter]_vars

(***************************************************************************)
(* Spec: silence_errors_in_report over the files on disk, run and run      *)
(* again.  errors is the parsed report (parse_mypy_report is applied in    *)
(* SpecParsing).                                                           *)
(***************************************************************************)

Init ==
    /\ pc = "start" /\ exc = ""
    /\ \E present \in SUBSET Filenames :
          files \in [present -> UNION {Contents(f) : f \in Filenames}]
          /\ \A f \in present : files[f] \in Contents(f)
    /\ errors \in SubSeqs(MasterReport)
    /\ description_style \in DescriptionStyles
    /\ fix_me \in FixMes
    /\ dry_run \in BOOLEAN
    /\ criteria \in ReportCriteria
    /\ NoComment /\ NoFile /\ NoReport /\ NoParsing /\ NoEditing /\
       NoErrorDetails /\ NoUtils /\ NoCli

\* the diagnostics are filtered and grouped by file, unless the source filter
\* raises
Start ==
    /\ pc = "start"
    /\ LET Filtered(source_filtered_errors) ==
               IF source_filtered_errors.exc # ""
               THEN /\ pc' = "raised"
                    /\ exc' = source_filtered_errors.exc
                    /\ UNCHANGED <<selected, code_filtered_errors, groups,
                                   silenced>>
               ELSE /\ pc' = "files"
                    /\ exc' = exc
                    /\ selected' = source_filtered_errors.val
                    /\ code_filtered_errors' =
                           filter_by_code(source_filtered_errors.val,
                                          criteria.codes_to_silence)
                    /\ groups' = groupby(code_filtered_errors', "filename")
                    /\ silenced' = <<>>
       IN Filtered(filter_by_source(errors, criteria.packages,
                                    criteria.modules, criteria.files))
    /\ log' = <<>>
    /\ before' = files
    /\ UNCHANGED <<options, commentVars, files, fileVars, result, run, first,
                   parsingVars, editingVars, detailVars, utilsVars, cliVars>>

\* the next file's name and diagnostics
filename == groups[1][1].filename
filename_grouped_errors == groups[1]

\* FileNotFound with the loop over the files left when a file is missing
FileNotFoundEndsTheLoop ==
    /\ pc = "files" /\ groups # <<>>
    /\ filename \notin DOMAIN files
    /\ log' = Append(log, TRY_SHOW_ABSOLUTE_PATH(filename))
    /\ groups' = <<>>
    /\ UNCHANGED <<pc, exc, options, commentVars, files, fileVars, silenced,
                   result, run, first, filterVars, parsingVars, editingVars,
                   detailVars, utilsVars, cliVars>>

\* TokenizeFails without the warning
TokenizeFailsUnlogged ==
    /\ pc = "files" /\ groups # <<>>
    /\ filename \in DOMAIN files
    /\ \E out \in silence_errors_in_file(files[filename], filename_grouped_errors,
                                         description_style, fix_me, dry_run) :
          out.exc = "TokenError"
    /\ groups' = Tail(groups)
    /\ UNCHANGED <<pc, exc, options, commentVars, files, fileVars, silenced,
                   result, run, first, filterVars, log, parsingVars,
                   editingVars, detailVars, utilsVars, cliVars>>

\* pathlib.Path(filename).open raises FileNotFoundError, which is logged
FileNotFound ==
    /\ pc = "files" /\ groups # <<>>
    /\ filename \notin DOMAIN files
    /\ log' = Append(log, TRY_SHOW_ABSOLUTE_PATH(filename))
    /\ groups' = Tail(groups)
    /\ UNCHANGED <<pc, exc, options, commentVars, files, fileVars, silenced,
                   result, run, first, filterVars, parsingVars, editingVars,
                   detailVars, utilsVars, cliVars>>

\* silence_errors_in_file raises TokenError, which is logged
TokenizeFails ==
    /\ pc = "files" /\ groups # <<>>
    /\ filename \in DOMAIN files
    /\ \E out \in silence_errors_in_file(files[filename], filename_grouped_errors,
                                         description_style, fix_me, dry_run) :
          out.exc = "TokenError"
    /\ log' = Append(log, UnableToTokenize(filename))
    /\ groups' = Tail(groups)
    /\ UNCHANGED <<pc, exc, options, commentVars, files, fileVars, silenced,
                   result, run, first, filterVars, parsingVars, editingVars,
                   detailVars, utilsVars, cliVars>>

\* silence_errors_in_file returns the diagnostics it silenced
FileSilenced ==
    /\ pc = "files" /\ groups # <<>>
    /\ filename \in DOMAIN files
    /\ \E out \in silence_errors_in_file(files[filename], filename_grouped_errors,
                                         description_style, fix_me, dry_run) :
          /\ out.exc = ""
          /\ files' = [files EXCEPT ![filename] = out.content]
          /\ silenced' = silenced \o out.returned
    /\ groups' = Tail(groups)
    /\ UNCHANGED <<pc, exc, options, commentVars, fileVars, result, run, first,
                   filterVars, log, parsingVars, editingVars, detailVars,
                   utilsVars, cliVars>>

\* silence_errors_in_file raises an exception that no handler catches
FileRaises ==
    /\ pc = "files" /\ groups # <<>>
    /\ filename \in DOMAIN files
    /\ \E out \in silence_errors_in_file(files[filename], filename_grouped_errors,
                                         description_style, fix_me, dry_run) :
          /\ out.exc \notin {"", "TokenError"}
          /\ exc' = out.exc
    /\ pc' = "raised"
    /\ UNCHANGED <<options, commentVars, files, fileVars, groups, silenced,
                   result, run, first, filterVars, log, parsingVars,
                   editingVars, detailVars, utilsVars, cliVars>>

\* the result is returned
Finish ==
    /\ pc = "files" /\ groups = <<>>
    /\ result' = MypyUpgradeResult(silenced,
                                   NotIn(code_filtered_errors, silenced),
                                   NotIn(errors, code_filtered_errors))
    /\ pc' = "done"
    /\ UNCHANGED <<exc, options, commentVars, files, fileVars, groups,
                   silenced, run, first, filterVars, log, parsingVars,
                   editingVars, detailVars, utilsVars, cliVars>>

\* the same report is processed again with the same options
Rerun ==
    /\ pc \in {"done", "raised"}
    /\ run < MaxRuns
    /\ run' = run + 1
    /\ first' = IF run = 1 THEN <<[files |-> files, pc |-> pc]>> ELSE first
    /\ pc' = "start"
    /\ exc' = ""
    /\ result' = NoResult
    /\ UNCHANGED <<options, commentVars, files, fileVars, groups, silenced,
                   filterVars, log, parsingVars, editingVars, detailVars,
                   utilsVars, cliVars>>

Next ==
    \/ Start
    \/ FileNotFound
    \/ TokenizeFails
    \/ FileSilenced
    \/ FileRaises
    \/ Finish
    \/ Rerun

Spec == Init /\ [][Next]_vars

(***************************************************************************)
(* SpecCli: mypy_upgrade from its loop over the files on: errors are the   *)
(* diagnostics of the report that passed the filter, in the order of the   *)
(* report                                                                  *)
(***************************************************************************)

InitCli ==
    /\ pc = "call" /\ exc = ""
    /\ \E present \in SUBSET Filenames :
          files \in [present -> UNION {Contents(f) : f \in Filenames}]
          /\ \A f \in present : files[f] \in Contents(f)
    /\ errors \in SubSeqs(MasterReport)
    /\ description_style \in DescriptionStyles
    /\ fix_me \in FixMes
    /\ dry_run = FALSE
    /\ criteria = NoCriteria
    /\ not_silenced = <<>> /\ messages = <<>>
    /\ NoComment /\ NoFile /\ NoReport /\ NoParsing /\ NoEditing
    /\ NoErrorDetails /\ NoUtils

\* the lists of the result are empty and the diagnostics are grouped by file
CliStart ==
    /\ pc = "call"
    /\ pc' = "loop"
    /\ messages' = <<>>
    /\ not_silenced' = <<>>
    /\ silenced' = <<>>
    /\ groups' = groupby(errors, "filename")
    /\ before' = files
    /\ UNCHANGED <<exc, options, commentVars, files, fileVars, selected,
                   code_filtered_errors, result, run, first, log, parsingVars,
                   editingVars, detailVars, utilsVars>>

\* pathlib.Path(filename).open raises FileNotFoundError: the message is
\* recorded and mypy_upgrade returns
CliFileNotFound ==
    /\ pc = "loop" /\ groups # <<>>
    /\ filename \notin DOMAIN files
    /\ messages' = Append(messages, TryShowAbsolutePath(filename))
    /\ result' = CliResult(silenced, not_silenced, messages')
    /\ pc' = "returned"
    /\ UNCHANGED <<exc, options, commentVars, files, fileVars, groups,
                   silenced, run, first, filterVars, log, parsingVars,
                   editingVars, detailVars, utilsVars, not_silenced>>

\* the file is read, its lines are silenced and written back
CliFileSilenced ==
    /\ pc = "loop" /\ groups # <<>>
    /\ filename \in DOMAIN files
    /\ \E out \in SilenceFile(files[filename], filename_grouped_errors,
                              description_style, fix_me) :
          /\ out.exc = ""
          /\ not_silenced' = not_silenced \o out.unsafe_to_silence
          /\ files' = [files EXCEPT ![filename] = out.lines]
          /\ silenced' = silenced \o out.safe_to_silence
    /\ groups' = Tail(groups)
    /\ UNCHANGED <<pc, exc, options, commentVars, fileVars, result, run, first,
                   filterVars, log, parsingVars, editingVars, detailVars,
                   utilsVars, messages>>

\* an exception other than FileNotFoundError escapes mypy_upgrade
CliFileRaises ==
    /\ pc = "loop" /\ groups # <<>>
    /\ filename \in DOMAIN files
    /\ \E out \in SilenceFile(files[filename], filename_grouped_errors,
                              description_style, fix_me) :
          /\ out.exc # ""
          /\ exc' = out.exc
    /\ pc' = "raised"
    /\ UNCHANGED <<options, commentVars, files, fileVars, groups, silenced,
                   result, run, first, filterVars, log, parsingVars,
                   editingVars, detailVars, utilsVars, cliVars>>

\* the loop is over: the warning about missing error codes, and the result
CliFinish ==
    /\ pc = "loop" /\ groups = <<>>
    /\ messages' =
           IF \E e \in Range(silenced \o not_silenced) : e.error_code = ""
           THEN Append(messages, MISSING_ERROR_CODES)
           ELSE messages
    /\ result' = CliResult(silenced, not_silenced, messages')
    /\ pc' = "done"
    /\ UNCHANGED <<exc, options, commentVars, files, fileVars, groups,
                   silenced, run, first, filterVars, log, parsingVars,
                   editingVars, detailVars, utilsVars, not_silenced>>

NextCli ==
    \/ CliStart
    \/ CliFileNotFound
    \/ CliFileSilenced
    \/ CliFileRaises
    \/ CliFinish

SpecCli == InitCli /\ [][NextCli]_vars

(***************************************************************************)
(* Properties of silence_errors_in_file (SpecFile)                         *)
(***************************************************************************)

\* the diagnostic given to silence_errors_in_file and its line
TheError == errors[1]
TheLine == TheError.line_no

\* the call got past the tokenizer: lines holds the lines of the file as read
Analysed == pc \in {"filtered", "returned", "raised"} /\ lines # <<>>

\* the content that was read, its tokens and its unsilenceable regions
Source == [i \in 1..Len(lines) |-> lines[i].code \o lines[i].comment]
Tokens == generate_tokens(Source).val
Regions == _find_unsilenceable_regions(Tokens, CommentsOf(lines))

\* the multi-line string literals of the file, as <<first line, closing line>>
MultiLineStrings ==
    LET Strings(tokens) ==
            {<<tokens[k].start[1], tokens[k].end[1]>> :
                k \in {k \in 1..Len(tokens) :
                          /\ tokens[k].type = "STRING"
                          /\ tokens[k].start[1] < tokens[k].end[1]}}
    IN Strings(Tokens)

\* line l ends in a backslash that continues it: the backslash is the last
\* character, outside any comment and any string literal
EndsInContinuation(l) ==
    /\ endswith(Source[l], "\\")
    /\ lines[l].comment = ""
    /\ \A m \in MultiLineStrings : ~(m[1] <= l /\ l < m[2])

OrdinaryCode(code) ==
    code \notin {"", "syntax", "unused-ignore", "ignore-without-code"}

\* C1: silence_errors_in_file without dry_run, on a line with code text, no
\* comment and no unsilenceable region, with one diagnostic of an ordinary
\* code c, fix_me "" and description_style "none", returns the diagnostic and
\* rewrites the line to the code text, two spaces and "# type: ignore[c]".
C1_RewritesPlainLine ==
    (/\ pc \in {"returned", "raised"} /\ lines # <<>>
     /\ ~dry_run /\ fix_me = "" /\ description_style = "none"
     /\ lines[TheLine].code # "" /\ lines[TheLine].comment = ""
     /\ \A r \in Regions : ~(r.start <= TheLine /\ TheLine <= r.end)
     /\ OrdinaryCode(TheError.error_code))
    => /\ pc = "returned"
       /\ returned = errors
       /\ files[TheError.filename][TheLine] =
              lines[TheLine].code \o "  # type: ignore["
                  \o TheError.error_code \o "]"

\* every region a file of the model can have
PossibleRegions ==
    {UnsilenceableRegion(a, b) : a \in 1..(MaxLines + 1), b \in 1..(MaxLines + 1)}

OtherRegionCovers(m, l) ==
    \E r \in Regions \ {UnsilenceableRegion(m[1], m[2])} :
        r.start <= l /\ l <= r.end

\* C3: the filter rejects a diagnostic on the first line or an interior line
\* of a multi-line string literal, and accepts a non-syntax diagnostic on the
\* closing line of one when no other region covers that line.
C3_MultiLineStrings ==
    Analysed
    => /\ (\E m \in MultiLineStrings : m[1] <= TheLine /\ TheLine < m[2])
          => TheError \notin Range(safe_to_silence)
       /\ (/\ TheError.error_code # "syntax"
           /\ \E m \in MultiLineStrings :
                 TheLine = m[2] /\ ~OtherRegionCovers(m, TheLine))
          => TheError \in Range(safe_to_silence)

\* C3 happens: a diagnostic on the closing line of a multi-line string was
\* accepted
C3_Witness ==
    /\ pc = "filtered"
    /\ \E m \in MultiLineStrings : TheLine = m[2]
    /\ TheError \in Range(safe_to_silence)

\* C4: every line that ends in a backslash continuation and has no comment
\* yields a single-line region; a diagnostic on it is not accepted, not
\* returned, and the line is written as it was read.
C4_ContinuationLines ==
    Analysed
    => \A l \in 1..Len(lines) :
          EndsInContinuation(l)
          => /\ UnsilenceableRegion(l, l) \in Regions
             /\ TheLine = l
                => /\ TheError \notin Range(safe_to_silence)
                   /\ pc = "returned"
                      => /\ TheError \notin Range(returned)
                         /\ files[TheError.filename][l] = Source[l]

(***************************************************************************)
(* Properties of create_suppression_comment (SpecComment)                  *)
(***************************************************************************)

\* the codes between the brackets of the first suppression clause of s
ClauseCodes(s) ==
    LET Codes(m) ==
            IF m.ok /\ m.codes # ""
            THEN [i \in 1..Len(split(m.codes, ",")) |->
                     strip(split(m.codes, ",")[i])]
            ELSE <<>>
    IN Codes(type_ignore_search(s))

\* the free text of the comment the line had: what follows its suppression
\* clause, without the leading "# "
FreeTextOf(c) ==
    lstrip(CHOOSE t \in FreeTexts :
               \E clause \in Clauses : c = strip(clause \o " " \o t),
           {"#", " "})

HasClause(c) == type_ignore_search(c).ok

Ordinary(error) == OrdinaryCode(error.error_code)

\* C5: create_suppression_comment never returns a comment with the empty
\* bracket pair "type: ignore[]", also for diagnostics whose code is "".
C5_NoEmptyBrackets ==
    pc = "returned" => ~contains(new_comment, "type: ignore[]")

\* C6: the bracket list of the returned suppression clause holds each code at
\* most once.
C6_NoDuplicateCode ==
    pc = "returned"
    => \A i, j \in 1..Len(ClauseCodes(new_comment)) :
          i # j => ClauseCodes(new_comment)[i] # ClauseCodes(new_comment)[j]

\* the clause "# type: ignore[...]" of the codes of the set S, sorted
SortedClause(S) ==
    "# type: ignore[" \o join(sorted(CHOOSE o \in Orders(S) : TRUE), ", ") \o "]"

\* C7: with a suppression clause of codes E in the comment and ordinary
\* diagnostics of codes A, the returned comment starts with the one clause of
\* E \cup A, sorted and separated by ", ", ahead of the free text.
C7_MergedSortedClause ==
    (/\ pc \in {"returned", "raised"}
     /\ HasClause(comment)
     /\ \A i \in 1..Len(errors) : Ordinary(errors[i]))
    => /\ pc = "returned"
       /\ LET clause == SortedClause(Range(ClauseCodes(comment))
                            \cup {errors[i].error_code : i \in 1..Len(errors)})
              rest == SubSeq(new_comment, Len(clause) + 1, Len(new_comment))
          IN /\ startswith(new_comment, clause)
             /\ rest = "" \/ startswith(rest, " # ")
             /\ ~HasClause(rest)

\* the unused-ignore diagnostic names every code of the clause of the
\* comment, or no code at all
NamesEveryCode(error, c) ==
    /\ error.error_code = "unused-ignore"
    /\ \/ string_to_error_codes(error.message) = {}
       \/ Range(ClauseCodes(c)) \subseteq string_to_error_codes(error.message)

\* C8: when the only diagnostic is an unused-ignore that names every code of
\* the clause (or none), the returned comment has no suppression clause and
\* no brackets: it is empty if the comment held nothing else and still holds
\* the free text otherwise.
C8_ClauseRemoved ==
    (/\ pc \in {"returned", "raised"}
     /\ HasClause(comment)
     /\ ~contains(FreeTextOf(comment), "type: ignore")
     /\ Len(errors) = 1
     /\ NamesEveryCode(errors[1], comment))
    => /\ pc = "returned"
       /\ ~HasClause(new_comment)
       /\ ~contains(new_comment, "[") /\ ~contains(new_comment, "]")
       /\ IF FreeTextOf(comment) = "" THEN new_comment = ""
          ELSE contains(new_comment, FreeTextOf(comment))

\* C9: the free text of the comment, also one that holds the phrase
\* "type: ignore", is part of the returned comment unchanged.
C9_FreeTextPreserved ==
    pc = "returned" => contains(new_comment, FreeTextOf(comment))

(***************************************************************************)
(* Properties of silence_errors_in_report (Spec)                           *)
(***************************************************************************)

\* C10: a second run with the same report and options, not a dry run, on the
\* files the first run wrote completes and leaves every file as the first
\* run wrote it.
C10_SecondRunChangesNothing ==
    (/\ run = 2 /\ ~dry_run
     /\ first[1].pc = "done"
     /\ pc \in {"done", "raised"})
    => /\ pc = "done"
       /\ files = first[1].files

(***************************************************************************)
(* Properties of the dry run (SpecFile)                                    *)
(***************************************************************************)

\* the outcomes of the call on the content that was read, without dry_run
RealRun ==
    silence_errors_in_file(Source, errors, description_style, fix_me, FALSE)

\* C11: on the same content, diagnostics and options, silence_errors_in_file
\* with dry_run returns the list the call without dry_run returns (and raises
\* when that call raises), leaves the content of the file as it was read, and
\* leaves the file position at the offset where the call started (0).
C11_DryRunSameResult ==
    /\ (pc = "returned" /\ dry_run) =>
          /\ files[TheError.filename] = Source
          /\ position = 0
          /\ \A out \in RealRun : out.exc = "" /\ out.returned = returned
    /\ (pc = "raised" /\ dry_run /\ Analysed) =>
          \A out \in RealRun : out.exc = exc

\* a dry run returned a diagnostic that the call without dry_run writes a
\* comment for
C11_Witness ==
    /\ pc = "returned" /\ dry_run
    /\ returned = <<TheError>>
    /\ \E out \in RealRun : out.exc = "" /\ out.content # Source

(***************************************************************************)
(* Properties of the files that cannot be processed (Spec)                 *)
(***************************************************************************)

\* the files the filtered diagnostics name, and the diagnostics of one of them
Named == {code_filtered_errors[i].filename : i \in 1..Len(code_filtered_errors)}
ErrorsOf(f) == SelectSeq(code_filtered_errors, LAMBDA e : e.filename = f)

\* every diagnostic of file f is in failures and none is in silenced
NotSilenced(f) ==
    \A e \in Range(ErrorsOf(f)) :
       e \in Range(result.failures) /\ e \notin Range(result.silenced)

\* file g was processed: its content is what silence_errors_in_file leaves of
\* the content it had when the run started
Processed(g) ==
    \E out \in silence_errors_in_file(before[g], ErrorsOf(g), description_style,
                                       fix_me, dry_run) :
       /\ out.exc \in {"", "TokenError"}
       /\ files[g] = out.content
       /\ out.exc = "" => \A e \in Range(out.returned) : e \in Range(silenced)

\* the source of file f cannot be tokenized
CannotBeTokenized(f) == generate_tokens(before[f]).exc = "TokenError"

\* C12: when silence_errors_in_report has returned and a file that the
\* diagnostics name does not exist, a warning that names the file was logged,
\* every diagnostic of the file is in failures and none in silenced, and
\* every other named file that exists was processed and rewritten.
C12_MissingFile ==
    pc = "done" =>
        \A f \in Named \ DOMAIN before :
           /\ \E warning \in Range(log) : contains(warning, f)
           /\ NotSilenced(f)
           /\ \A g \in (Named \cap DOMAIN before) : Processed(g)

\* a run returned with a file missing, after which another file was rewritten
C12_Witness ==
    /\ pc = "done" /\ run = 1
    /\ "a.py" \in Named \ DOMAIN before
    /\ "b.py" \in Named \cap DOMAIN before
    /\ files["b.py"] # before["b.py"]
    /\ result.silenced # <<>>

\* C13: when silence_errors_in_report has returned and the source of a named
\* file cannot be tokenized, the message "Unable to tokenize file: <filename>"
\* was logged, the file's content is as it was, every diagnostic of the file
\* is in failures and none in silenced, and the other named files that exist
\* were processed.
C13_TokenizeFailure ==
    pc = "done" =>
        \A f \in Named \cap DOMAIN before :
           CannotBeTokenized(f) =>
              /\ ("Unable to tokenize file: " \o f) \in Range(log)
              /\ files[f] = before[f]
              /\ NotSilenced(f)
              /\ \A g \in (Named \cap DOMAIN before) \ {f} : Processed(g)

\* a run returned with a file that ends inside a bracket, after which another
\* file was rewritten
C13_Witness ==
    /\ pc = "done" /\ run = 1
    /\ "a.py" \in Named \cap DOMAIN before
    /\ before["a.py"] = <<"f(x">>
    /\ "b.py" \in Named \cap DOMAIN before
    /\ files["b.py"] # before["b.py"]
    /\ result.silenced # <<>>

\* C14: silence_errors_in_report raises no exception, whatever the report, the
\* criteria and the files are: a module name that cannot be resolved, a line
\* number beyond the end of the file and a diagnosed line without suppression
\* clause all end in a returned MypyUpgradeResult.
C14_NoExceptionEscapes == pc # "raised" /\ exc = ""

(***************************************************************************)
(* Properties of parsing.py (SpecParsing)                                  *)
(***************************************************************************)

\* the diagnostic a line of the report was printed for
IsDiagnosticLine(line) == \E d \in ReportDiagnostics : ReportLine(d) = line
DiagnosticOf(line) == CHOOSE d \in ReportDiagnostics : ReportLine(d) = line

\* file name, line number and code of a diagnostic
Identity(e) == <<e.filename, e.line_no, e.error_code>>
SameKey(a, b) == a[1] = b[1] /\ a[2] = b[2]

\* the diagnostics a report was printed for, in the order of the report
DiagnosticsOf(lines_of_report) ==
    LET Of(reported) ==
            [i \in 1..Len(reported) |-> Identity(DiagnosticOf(reported[i]))]
    IN Of(SelectSeq(lines_of_report, IsDiagnosticLine))

\* C15: parse_mypy_report returns one MypyError for each line of the report
\* that is a diagnostic of the grammar (the other lines are skipped), sorted
\* ascending by (filename, line_no), the diagnostics of equal file name and
\* line number in the order of the report.
C15_ParsesAndSorts ==
    pc = "parsed" =>
        LET Holds(parsed, reported) ==
                /\ Len(parsed) = Len(reported)
                /\ \A i \in 1..(Len(parsed) - 1) :
                      \/ StrLess(parsed[i][1], parsed[i + 1][1])
                      \/ (/\ parsed[i][1] = parsed[i + 1][1]
                          /\ parsed[i][2] <= parsed[i + 1][2])
                /\ \A k \in Range(reported) \cup Range(parsed) :
                      SelectSeq(parsed, LAMBDA e : SameKey(e, k))
                          = SelectSeq(reported, LAMBDA e : SameKey(e, k))
        IN Holds([i \in 1..Len(errors) |-> Identity(errors[i])],
                 DiagnosticsOf(report))

\* the codes a phrase of a message lists, as written between its brackets
Listed(phrase) ==
    CASE phrase = "\"type: ignore[override]\"" -> <<"override">>
      [] phrase = "\"type: ignore[assignment, override]\"" ->
           <<"assignment", "override">>
      [] phrase = "\"type: ignore[ override ,arg-type]\"" ->
           <<"override", "arg-type">>
      [] phrase = "\"type: ignore[override, override]\"" ->
           <<"override", "override">>
      [] OTHER -> <<>>

\* the phrases a message was put together from
PhrasesOf(message) ==
    CHOOSE phrases \in SeqsUpTo(Phrases, MaxPhrases) :
        join(phrases, " ") = message

\* C20: string_to_error_codes returns the empty tuple when no phrase of the
\* string has a bracketed code list; otherwise it returns the codes of a phrase
\* that lists the most codes (counted as listed, or counted once each), each
\* code trimmed and present once.
C20_CodesOfTheLongestList ==
    pc = "extracted" =>
        LET Holds(phrases) ==
                IF \A i \in 1..Len(phrases) : Listed(phrases[i]) = <<>>
                THEN codes_in_message = <<>>
                ELSE /\ \E i \in 1..Len(phrases) :
                          /\ Range(Listed(phrases[i])) = Range(codes_in_message)
                          /\ \/ \A j \in 1..Len(phrases) :
                                   Len(Listed(phrases[j]))
                                       <= Len(Listed(phrases[i]))
                             \/ \A j \in 1..Len(phrases) :
                                   Cardinality(Range(Listed(phrases[j])))
                                       <= Cardinality(Range(Listed(phrases[i])))
                     /\ Cardinality(Range(codes_in_message))
                            = Len(codes_in_message)
                     /\ \A i \in 1..Len(codes_in_message) :
                           strip(codes_in_message[i]) = codes_in_message[i]
        IN Holds(PhrasesOf(string))

(***************************************************************************)
(* Properties of filter_by_source (SpecFilter)                             *)
(***************************************************************************)

\* where the environment keeps the package or module of a name, as an absolute
\* path (<<>>: the name has no location)
Location(name) ==
    CASE name = "pkg" -> <<"/", "repo", "pkg">>
      [] name = "pkg.sub" -> <<"/", "repo", "pkg", "sub">>
      [] name = "pkg.sub.m" -> <<"/", "repo", "pkg", "sub", "m.py">>
      [] name = "a" -> <<"/", "repo", "a.py">>
      [] name = "zipimport" -> <<"/", "usr", "lib", "zipimport.py">>
      [] OTHER -> <<>>

\* the absolute path a file name of the model stands for, from /repo
Absolute(name) ==
    CASE name = "/repo/a.py" -> <<"/", "repo", "a.py">>
      [] name = "./pkg/sub/deep/k.py" ->
           <<"/", "repo", "pkg", "sub", "deep", "k.py">>
      [] name = "other/a.py" -> <<"/", "repo", "other", "a.py">>
      [] name = "pkg/sub/../m.py" -> <<"/", "repo", "pkg", "m.py">>
      [] name = "pkg/sub/m.py" -> <<"/", "repo", "pkg", "sub", "m.py">>
      [] name = "pkg/subx/m.py" -> <<"/", "repo", "pkg", "subx", "m.py">>
      [] name = "pkg/subx" -> <<"/", "repo", "pkg", "subx">>
      [] name = "./pkg/m.py" -> <<"/", "repo", "pkg", "m.py">>
      [] name = "/repo/other" -> <<"/", "repo", "other">>

\* path p is path q or lies under it
IsUnder(p, q) == Len(q) <= Len(p) /\ SubSeq(p, 1, Len(q)) = q

\* the names among the criteria, and the inclusion paths they resolve to
Names == Range(criteria.packages \o criteria.modules)
InclusionPaths ==
    ({Location(name) : name \in Names} \ {<<>>})
        \cup {Absolute(f) : f \in Range(criteria.files)}

\* the diagnostics whose file is, or lies under, an inclusion path
Included ==
    SelectSeq(errors, LAMBDA error :
                  \E q \in InclusionPaths : IsUnder(Absolute(error.filename), q))

NoCriterion == criteria.packages \o criteria.modules \o criteria.files = <<>>

\* C16: filter_by_source returns the diagnostics unchanged when packages,
\* modules and files are empty, and otherwise exactly the diagnostics whose
\* resolved file path is, or lies under, one of the resolved inclusion paths.
C16_FilterBySource ==
    pc = "selected" =>
        selected = IF NoCriterion THEN errors ELSE Included

\* the filter kept the diagnostics under the package pkg.sub (one of them two
\* directories down) and left out others
C16_Witness ==
    /\ pc = "selected"
    /\ criteria.packages = <<"pkg.sub">>
    /\ criteria.modules = <<>> /\ criteria.files = <<>>
    /\ Len(selected) = 2 /\ Len(errors) > 2
    /\ selected[1].filename = "./pkg/sub/deep/k.py"

\* C17: when the resolution of a package or module name fails (the name is
\* not found or is of a kind that is not handled), filter_by_source raises
\* nothing and the name contributes no inclusion path: the diagnostics
\* returned are those included through the other criteria.
C17_ResolutionFailureIsSilent ==
    (/\ pc \in {"selected", "raised"}
     /\ \E name \in Names : Location(name) = <<>>) =>
        /\ pc = "selected"
        /\ selected = Included

(***************************************************************************)
(* Properties of the result of silence_errors_in_report (Spec)             *)
(***************************************************************************)

\* the lists of the result that hold the diagnostic
ListsOf(error) ==
    {list \in {"silenced", "failures", "ignored"} : error \in Range(result[list])}

\* C18: in the result of silence_errors_in_report every parsed diagnostic is
\* in exactly one of silenced, failures and ignored: one left out by the
\* source or code filters is in ignored only, one that passed the filters is
\* in exactly one of silenced and failures; the lists hold nothing else.
C18_ExactlyOneList ==
    pc = "done" =>
        /\ \A error \in Range(errors) :
              /\ Cardinality(ListsOf(error)) = 1
              /\ error \notin Range(code_filtered_errors)
                     => ListsOf(error) = {"ignored"}
              /\ error \in Range(code_filtered_errors)
                     => ListsOf(error) \subseteq {"silenced", "failures"}
        /\ Range(result.silenced \o result.failures \o result.ignored)
               \subseteq Range(errors)

\* a result in which each of the three lists holds a diagnostic, after a
\* filter left some diagnostics out
C18_Witness ==
    /\ pc = "done"
    /\ criteria # NoCriteria
    /\ result.silenced # <<>>
    /\ result.failures # <<>>
    /\ result.ignored # <<>>

(***************************************************************************)
(* Properties of the lines silence_errors_in_file leaves alone (SpecFile)  *)
(***************************************************************************)

\* the lines of the file that no returned diagnostic is reported on
Untouched ==
    {l \in 1..Len(Source) : \A k \in 1..Len(returned) : returned[k].line_no # l}

\* C19: after silence_errors_in_file without dry_run, every line that
\* received no safe diagnostic is written back identical to the original,
\* the spacing between its code and its comment included; only lines that
\* received a safe diagnostic differ.
C19_UntouchedLinesIdentical ==
    (pc = "returned" /\ ~dry_run) =>
        /\ Len(files["f.py"]) = Len(Source)
        /\ \A l \in Untouched : files["f.py"][l] = Source[l]

(***************************************************************************)
(* Properties of the fix-me marker and the descriptions (SpecComment)      *)
(***************************************************************************)

\* an ignore-without-code diagnostic whose message suggests codes
Suggests(error) ==
    /\ error.error_code = "ignore-without-code"
    /\ contains(error.message, "(consider ")

\* a diagnostic that gives the line a code to add
AddsCode(error) ==
    \/ error.error_code \notin {"unused-ignore", "ignore-without-code"}
    \/ Suggests(error)

HasCodesToAdd == \E i \in 1..Len(errors) : AddsCode(errors[i])

\* the texts joined of a list of texts per diagnostic
RECURSIVE Flatten(_)
Flatten(xss) == IF xss = <<>> THEN <<>> ELSE xss[1] \o Flatten(Tail(xss))

\* the messages of the diagnostics that give the line a code to add
MessagesToAdd ==
    Flatten([i \in 1..Len(errors) |->
                IF AddsCode(errors[i]) THEN <<errors[i].message>> ELSE <<>>])

\* the same, with "No message" for every code an ignore-without-code
\* diagnostic suggests
DescriptionsToAdd ==
    Flatten([i \in 1..Len(errors) |->
                IF Suggests(errors[i])
                THEN [k \in 1..Cardinality(string_to_error_codes(errors[i].message))
                         |-> "No message"]
                ELSE IF AddsCode(errors[i]) THEN <<errors[i].message>>
                ELSE <<>>])

\* the comment returned for the same line and diagnostics without a fix-me
\* marker and with description_style "none", followed by the marker and by
\* the descriptions
Appended(descriptions) ==
    \E plain \in create_suppression_comment(comment, errors, "none", "") :
       /\ plain.exc = ""
       /\ new_comment =
              plain.val
                  \o (IF HasCodesToAdd /\ fix_me # "" THEN " # " \o fix_me ELSE "")
                  \o (IF HasCodesToAdd /\ description_style = "full"
                      THEN " # " \o join(descriptions, ", ") ELSE "")

\* C22 as stated: when the line has codes to add, create_suppression_comment
\* appends " # <fix_me>" only if fix_me is not empty and after it " # " and
\* the comma-joined messages of the diagnostics only if description_style is
\* "full"; with only removals it appends neither.
C22_FixMeAndMessages ==
    pc = "returned" => Appended(MessagesToAdd)

\* C22 amended: as above, the text appended for description_style "full"
\* being the comma-joined descriptions: the message of every ordinary
\* diagnostic and "No message" for every code that an ignore-without-code
\* diagnostic suggests.
C22_FixMeAndDescriptions ==
    pc = "returned" => Appended(DescriptionsToAdd)

\* a comment returned with the marker and two descriptions, one of them the
\* placeholder
C22_Witness ==
    /\ pc = "returned"
    /\ fix_me = "FIX ME" /\ description_style = "full"
    /\ Len(errors) = 2
    /\ errors[1].error_code = "assignment" /\ Suggests(errors[2])
    /\ endswith(new_comment,
                " # FIX ME # Incompatible types in assignment, No message")

(***************************************************************************)
(* Properties of _extract_error_details (SpecComment)                      *)
(***************************************************************************)

\* the codes the message of a diagnostic of the model embeds
Embedded(error) ==
    CASE error.message = UnusedOverride.message -> {"override"}
      [] error.message = UnusedBoth.message -> {"assignment", "override"}
      [] error.message = WithoutCodeSuggested.message -> {"arg-type"}
      [] OTHER -> {}

Kind(error) ==
    IF error.error_code \in {"unused-ignore", "ignore-without-code"}
    THEN error.error_code ELSE "ordinary"

ErrorsOfKind(kind) == {errors[i] : i \in {i \in 1..Len(errors) : Kind(errors[i]) = kind}}

Extracted == pc \in {"returned", "raised"}

\* C23: _extract_error_details puts an ordinary diagnostic's code and message
\* in the add and description lists, the codes embedded in an unused-ignore
\* diagnostic's message (or "*") in the remove list, and an
\* ignore-without-code diagnostic's suggested codes in the add list (or "*" in
\* the remove list); the two codes themselves are never in the add list, the
\* messages of those diagnostics never in the description list, and the lists
\* hold nothing else.
C23_ErrorDetails ==
    Extracted =>
        /\ \A error \in ErrorsOfKind("ordinary") :
              /\ error.error_code \in Range(details.add)
              /\ error.message \in Range(details.descriptions)
        /\ \A error \in ErrorsOfKind("unused-ignore") :
              (IF Embedded(error) = {} THEN {"*"} ELSE Embedded(error))
                  \subseteq Range(details.remove)
        /\ \A error \in ErrorsOfKind("ignore-without-code") :
              IF Embedded(error) = {} THEN "*" \in Range(details.remove)
              ELSE Embedded(error) \subseteq Range(details.add)
        /\ \A error \in Range(errors) :
              Kind(error) # "ordinary"
                  => /\ error.error_code \notin Range(details.add)
                     /\ error.message \notin Range(details.descriptions)
        /\ Range(details.add) =
               {error.error_code : error \in ErrorsOfKind("ordinary")}
                   \cup UNION {Embedded(error) :
                                  error \in ErrorsOfKind("ignore-without-code")}
        /\ Range(details.remove) =
               UNION {IF Embedded(error) = {} THEN {"*"} ELSE Embedded(error) :
                         error \in ErrorsOfKind("unused-ignore")}
                   \cup {"*" : error \in {e \in ErrorsOfKind("ignore-without-code") :
                                             Embedded(e) = {}}}
        /\ Len(details.add) = Len(details.descriptions)

\* the lists returned for an unused-ignore diagnostic that embeds two codes and
\* an ignore-without-code diagnostic that suggests one
C23_Witness ==
    /\ Extracted
    /\ Len(errors) = 2
    /\ errors[1].message = UnusedBoth.message
    /\ errors[2].message = WithoutCodeSuggested.message
    /\ details.add = <<"arg-type">>
    /\ details.descriptions = <<"No message">>
    /\ Len(details.remove) = 2

(***************************************************************************)
(* Properties of remove_unused_type_ignore_comments (SpecEditing)          *)
(***************************************************************************)

\* the clause the comment was written from
TheClause == CHOOSE c \in EditedClauses : ClauseText(c) = comment

\* what stands between the brackets of the clause of the returned comment,
\* the text before and after the clause being that of TheClause
Inner(c) ==
    SubSeq(new_comment, Len(c.before \o "type: ignore[") + 1,
           Len(new_comment) - Len(c.after) - 1)

\* the codes listed in a bracket text, blanks and empty entries dropped
Entries(inner) ==
    SelectSeq([i \in 1..Len(split(inner, ",")) |-> strip(split(inner, ",")[i])],
              LAMBDA code : code # "")

\* C21: remove_unused_type_ignore_comments removes from the suppression
\* clause exactly the codes listed in codes_to_remove: every other code of the
\* clause stays in it intact (also when a removed code is a substring of a
\* kept one) and the text of the comment outside the clause is unchanged.
C21_RemovesExactlyTheCodes ==
    (/\ pc = "returned"
     /\ "*" \notin Range(codes_to_remove)
     /\ \E c \in EditedClauses : ClauseText(c) = comment) =>
        /\ startswith(new_comment, TheClause.before \o "type: ignore[")
        /\ endswith(new_comment, "]" \o TheClause.after)
        /\ Entries(Inner(TheClause)) =
               SelectSeq(TheClause.codes,
                         LAMBDA code : code \notin Range(codes_to_remove))

(***************************************************************************)
(* Properties of the fields parse_mypy_report reads (SpecParsing)          *)
(***************************************************************************)

\* the MypyError a diagnostic line of the report stands for
ErrorOf(line) ==
    LET Of(d) == MypyError(d.filename, d.line_no, d.col_offset, d.message,
                           d.error_code)
    IN Of(DiagnosticOf(line))

\* how many entries of a list are equal to x
Count(xs, x) == Cardinality({i \in 1..Len(xs) : xs[i] = x})

\* C27: parse_mypy_report accepts a diagnostic line with or without a column,
\* an end position and a trailing [code]: each such line yields one MypyError,
\* with error_code "" and as message the whole text after "error: " when the
\* line has no [code], and with that code and the message without the code
\* and without surrounding whitespace when it has one.
C27_OptionalFields ==
    pc = "parsed" =>
        \A line \in {l \in Range(report) : IsDiagnosticLine(l)} :
           Count(errors, ErrorOf(line)) =
               Cardinality({i \in 1..Len(report) :
                               /\ IsDiagnosticLine(report[i])
                               /\ ErrorOf(report[i]) = ErrorOf(line)})

(***************************************************************************)
(* Properties of the order in which files and lines are processed (Spec)   *)
(***************************************************************************)

\* the keys of a list of groups
Keys(gs, attr) == [i \in 1..Len(gs) |-> gs[i][1][attr]]

Distinct(xs) == \A i, j \in 1..Len(xs) : i # j => xs[i] # xs[j]

\* the groups of the run: one per file the filtered diagnostics name, the
\* groups left to process being the last of them
FileGroups == groupby(code_filtered_errors, "filename")

\* no file is named by two groups, the groups left are the end of the list of
\* the groups, and whatever diagnostics of a file are safe, no line of the
\* file has two groups
GroupedOnce ==
    pc = "files" =>
        /\ Distinct(Keys(FileGroups, "filename"))
        /\ Len(groups) <= Len(FileGroups)
        /\ groups = SubSeq(FileGroups, Len(FileGroups) - Len(groups) + 1,
                           Len(FileGroups))
        /\ \A k \in 1..Len(FileGroups) :
              /\ \A error \in Range(code_filtered_errors) :
                    error.filename = FileGroups[k][1].filename
                        => error \in Range(FileGroups[k])
              /\ \A safe \in SubSeqs(FileGroups[k]) :
                    LET LineGroups(gs) ==
                            /\ Distinct(Keys(gs, "line_no"))
                            /\ \A i \in 1..Len(gs) :
                                  Range(gs[i]) =
                                      {error \in Range(safe) :
                                          error.line_no = gs[i][1].line_no}
                    IN LineGroups(groupby(safe, "line_no"))

\* a step changes the content of no file but the one of the first group left,
\* which it takes off the list
OneFilePerStep ==
    /\ DOMAIN files' = DOMAIN files
    /\ \A f \in DOMAIN files :
          files'[f] # files[f]
              => /\ pc = "files" /\ groups # <<>>
                 /\ f = groups[1][1].filename
                 /\ groups' = Tail(groups)
    /\ groups' # groups => \/ pc = "start"
                           \/ groups # <<>> /\ groups' = Tail(groups)

\* C28: one call of silence_errors_in_report opens each file the filtered
\* diagnostics name at most once, has written one file before it reads the
\* next, and within a file makes the new comment of a line at most once, from
\* all the safe diagnostics of the line together.
C28_EachFileAndLineOnce == [](GroupedOnce) /\ [][OneFilePerStep]_vars

\* a.py has been rewritten, its two diagnostics of line 1 silenced together,
\* and b.py with two diagnostics on one line is still to be opened
C28_Witness ==
    /\ pc = "files"
    /\ Len(groups) = 1 /\ Len(groups[1]) = 2
    /\ groups[1][1].filename = "b.py"
    /\ Len(silenced) = 2
    /\ silenced[1].line_no = silenced[2].line_no
    /\ "a.py" \in DOMAIN files /\ files["a.py"] # before["a.py"]

(***************************************************************************)
(* Properties of the text silence_errors_in_file writes (SpecFile)         *)
(***************************************************************************)

\* C29: after silence_errors_in_file without dry_run the content of the file
\* from the offset where the call started (0) is exactly the reassembled
\* lines: the file ends where the written text ends, also when the new text is
\* shorter than the old one.
C29_NothingLeftOfTheOldText ==
    (pc = "returned" /\ ~dry_run) =>
        /\ \E out \in RealRun : out.exc = "" /\ files["f.py"] = out.content
        /\ Length(files["f.py"]) = position

\* a suppression clause was removed: the text written is shorter than the
\* text read
C29_Witness ==
    /\ pc = "returned" /\ ~dry_run
    /\ returned = <<TheError>>
    /\ TheError.error_code = "unused-ignore"
    /\ Length(files["f.py"]) < Length(Source)

(***************************************************************************)
(* Properties of the corrected line numbers (SpecUtils)                    *)
(***************************************************************************)

\* the tokens and the unsilenceable regions of the stream
StreamTokens == generate_tokens(stream).val
StreamRegions == find_unsilenceable_regions(stream).val

\* line l is inside a multi-line string literal that goes on after it
InsideString(l) ==
    \E k \in 1..Len(StreamTokens) :
       /\ StreamTokens[k].type = "STRING"
       /\ StreamTokens[k].start[1] <= l /\ l < StreamTokens[k].end[1]

\* line l is explicitly continued: it ends in a backslash, has no comment and
\* the backslash is not part of a string literal
ExplicitlyContinued(l) ==
    /\ endswith(stream[l], "\\")
    /\ \A k \in 1..Len(StreamTokens) :
          ~(StreamTokens[k].type = "COMMENT" /\ StreamTokens[k].start[1] = l)
    /\ ~InsideString(l)

\* C25: correct_line_numbers puts every diagnostic reported on an explicitly
\* continued line in its excluded list and not in its silenceable list,
\* whether the column offset of the diagnostic is known or None.
C25_ContinuedLinesExcluded ==
    pc = "corrected" =>
        \A i \in 1..Len(errors) :
           ExplicitlyContinued(errors[i].line_no) =>
               /\ errors[i] \in Range(excluded_errors)
               /\ errors[i] \notin Range(line_corrected_errors)

\* the diagnostic lies in an unsilenceable region: on a line of a multi-line
\* string before its closing line, or on an explicitly continued line
InSomeRegion(error) ==
    \E k \in 1..Len(StreamRegions) :
       /\ StreamRegions[k].start[1] <= error.line_no
       /\ error.line_no <= StreamRegions[k].end[1]

\* C26: correct_line_numbers returns every diagnostic that lies in no
\* unsilenceable region in its first list with all five fields as given; every
\* diagnostic given is in exactly one of the two lists, and the diagnostics of
\* the second list are as given.
C26_AcceptedAsGiven ==
    pc = "corrected" =>
        /\ \A i \in 1..Len(errors) :
              ~InSomeRegion(errors[i]) =>
                  errors[i] \in Range(line_corrected_errors)
        /\ \A i \in 1..Len(errors) :
              (errors[i] \in Range(line_corrected_errors))
                  # (errors[i] \in Range(excluded_errors))
        /\ Range(excluded_errors) \subseteq Range(errors)

\* C30: find_safe_end_line returns for every diagnostic and every list of
\* regions, and what it returns is -1 or a line number (a positive integer),
\* also when the diagnostic is on the first line of a multi-line string and
\* when one string literal starts on the line where another ends.
C30_FindSafeEndLineReturns ==
    /\ pc # "unfinished"
    /\ pc = "found" => end_line = -1 \/ end_line >= 1

(***************************************************************************)
(* Properties of mypy_upgrade (SpecCli)                                    *)
(***************************************************************************)

\* the diagnostics mypy_upgrade has to silence in file f, and the diagnostics
\* of f in a list of its result
ToSilenceIn(f) == SelectSeq(errors, LAMBDA e : e.filename = f)
ResultOf(list, f) == SelectSeq(list, LAMBDA e : e.filename = f)

\* C24: when mypy_upgrade has returned and a file of the report is missing, a
\* message that names the file is in messages, the diagnostics of the file
\* are in not_silenced, and every diagnostic of the files after it in the
\* sorted report is in silenced or in not_silenced.
C24_MissingFileIsPassedOver ==
    pc \in {"returned", "done"} =>
        \A f \in {e.filename : e \in Range(errors)} \ DOMAIN files :
           /\ \E m \in Range(result.messages) : contains(m, f)
           /\ \A e \in Range(ToSilenceIn(f)) : e \in Range(result.not_silenced)
           /\ \A g \in {e.filename : e \in Range(errors)} :
                 StrLess(f, g) =>
                     Len(ResultOf(result.silenced, g))
                         + Len(ResultOf(result.not_silenced, g))
                       = Len(ToSilenceIn(g))

====
